---------------------------- MODULE Spec2Model ----------------------------
(***************************************************************************)
(* A model of bouncer.js, the commit gate: one run of the script from the  *)
(* parsing of its arguments to process exit.  Texts (arguments, paths,     *)
(* credentials, messages, responses) are tuples of one-character strings,  *)
(* so that trim, split, includes and the /PASS/i test are computed and not *)
(* assumed.  The collaborators (dotenv, git, the file system, the Gemini   *)
(* client) are the environment: each call draws its outcome from a small   *)
(* set.  Timestamps of the records are not modelled.                       *)
(***************************************************************************)
EXTENDS Integers, Sequences, FiniteSets, TLC

(***************************************************************************)
(* Bounds of the model.                                                    *)
(***************************************************************************)
\* length of the long credentials tried (the check is "length < 20")
LongKeyLen == 20

\* characters in the small staged diff
SmallDiffLen == 7

\* characters in the large staged diffs
BigDiffLen == 3000000

\* a token count above the ceiling, as returned by the count call
BigCount == 950000

(***************************************************************************)
(* Program constants.                                                      *)
(***************************************************************************)
\* bouncer.js:447
TOKEN_LIMIT_THRESHOLD == 800000

\* bouncer.js:448, FALLBACK_AVERAGE_CHARS_PER_TOKEN = 3.5 = 35 / 10
FALLBACK_CHARS_X10 == 35

\* bouncer.js:433, the minimum credential length
MIN_KEY_LENGTH == 20

\* bouncer.js:581, the 0.95 safety factor = 95 / 100
SAFETY_PERCENT == 95

(***************************************************************************)
(* Texts.                                                                  *)
(***************************************************************************)
UpperAlpha == <<"A", "B", "C", "D", "E", "F", "G", "H", "I", "J", "K", "L", "M", "N", "O", "P", "Q", "R", "S", "T", "U", "V", "W", "X", "Y", "Z">>

LowerAlpha == <<"a", "b", "c", "d", "e", "f", "g", "h", "i", "j", "k", "l", "m", "n", "o", "p", "q", "r", "s", "t", "u", "v", "w", "x", "y", "z">>

\* String.prototype.toLowerCase / toUpperCase on one character
LowerOf(c) ==
  IF \E i \in 1..26 : UpperAlpha[i] = c
    THEN LowerAlpha[CHOOSE i \in 1..26 : UpperAlpha[i] = c]
    ELSE c

UpperOf(c) ==
  IF \E i \in 1..26 : LowerAlpha[i] = c
    THEN UpperAlpha[CHOOSE i \in 1..26 : LowerAlpha[i] = c]
    ELSE c

toLowerCase(s) == [i \in 1..Len(s) |-> LowerOf(s[i])]

\* String.prototype.startsWith
startsWith(s, p) ==
  /\ Len(p) <= Len(s)
  /\ \A j \in 1..Len(p) : s[j] = p[j]

\* the positions (1-based) at which p occurs in s
Occurrences(s, p) ==
  {i \in 1..(Len(s) - Len(p) + 1) : \A j \in 1..Len(p) : s[i + j - 1] = p[j]}

\* String.prototype.includes
includes(s, p) == Occurrences(s, p) # {}

WhiteSpace == {" ", "\t", "\n"}

\* String.prototype.trim
trim(s) ==
  LET keep == {i \in 1..Len(s) : s[i] \notin WhiteSpace}
  IN IF keep = {} THEN <<>>
     ELSE LET lo == CHOOSE i \in keep : \A k \in keep : i <= k
              hi == CHOOSE i \in keep : \A k \in keep : i >= k
          IN SubSeq(s, lo, hi)

\* String.prototype.slice(n) for 0 <= n
slice(s, n) == SubSeq(s, n + 1, Len(s))

\* s repeated: a text of n copies of the character c
Repeat(c, n) == [i \in 1..n |-> c]

\* absent values (undefined)
NONE == "undefined"

(***************************************************************************)
(* Configuration: parseArguments and the three resolved paths.             *)
(***************************************************************************)
\* a value of cliArgs: the boolean true of a bare flag, or a text
FlagValue == [flag |-> TRUE, text |-> <<>>]

TextValue(s) == [flag |-> FALSE, text |-> s]

\* args[key] = value
PutArg(args, key, value) ==
  [k \in (DOMAIN args) \cup {key} |-> IF k = key THEN value ELSE args[k]]

\* arg.split('=', 2): the text before the first "=" and the text between
\* the first and the second "=" (or the end)
splitEq2(arg) ==
  LET eqs    == {i \in 1..Len(arg) : arg[i] = "="}
      first  == CHOOSE i \in eqs : \A k \in eqs : i <= k
      later  == {i \in eqs : i > first}
      second == IF later = {} THEN Len(arg) + 1
                ELSE CHOOSE i \in later : \A k \in later : i <= k
  IN <<SubSeq(arg, 1, first - 1), SubSeq(arg, first + 1, second - 1)>>

RECURSIVE parseFrom(_, _, _)
\* the loop of parseArguments, from index i (1-based) with the args so far
parseFrom(argv, i, args) ==
  IF i > Len(argv) THEN args
  ELSE
    LET arg == argv[i] IN
    IF startsWith(arg, <<"-", "-">>)
      THEN IF includes(arg, <<"=">>)
             THEN LET kv == splitEq2(arg)
                  IN parseFrom(argv, i + 1,
                               PutArg(args, slice(kv[1], 2), TextValue(kv[2])))
             ELSE IF i + 1 <= Len(argv) /\ ~startsWith(argv[i + 1], <<"-", "-">>)
                    THEN parseFrom(argv, i + 2,
                                   PutArg(args, slice(arg, 2), TextValue(argv[i + 1])))
                    ELSE parseFrom(argv, i + 1,
                                   PutArg(args, slice(arg, 2), FlagValue))
      ELSE parseFrom(argv, i + 1, args)

parseArguments(argv) == parseFrom(argv, 1, <<>>)

\* the working directory of the run
Cwd == <<"/", "w">>

\* path.resolve of a text: an absolute path is kept, a relative one is put
\* under the working directory (a leading "./" dropped); other
\* normalisations ("..", "//") are not modelled
pathResolve(p) ==
  IF p = <<>> THEN Cwd
  ELSE IF startsWith(p, <<"/">>) THEN p
  ELSE IF startsWith(p, <<".", "/">>) THEN Cwd \o <<"/">> \o slice(p, 2)
  ELSE Cwd \o <<"/">> \o p

ENV_FILE == <<"e", "n", "v", "-", "f", "i", "l", "e">>

RULES_FILE == <<"r", "u", "l", "e", "s", "-", "f", "i", "l", "e">>

LOG_FILE == <<"l", "o", "g", "-", "f", "i", "l", "e">>

\* cliArgs[key] is truthy: true, or a non-empty text
Truthy(args, key) ==
  /\ key \in DOMAIN args
  /\ (args[key].flag \/ args[key].text # <<>>)

\* path.resolve(true) throws a TypeError: the argument must be a string
ResolveThrows(args, key) == Truthy(args, key) /\ args[key].flag

\* cliArgs[key] ? path.resolve(cliArgs[key]) : path.resolve(default)
ResolvedPath(args, key, default) ==
  IF Truthy(args, key) THEN pathResolve(args[key].text) ELSE pathResolve(default)

\* the three path switches, and a switch as it is written
PathKeys == {RULES_FILE, ENV_FILE, LOG_FILE}

Dashed(key) == <<"-", "-">> \o key

\* the values tried for the path switches
PathValues == { <<"r", ".", "m", "d">>, <<".", "/", "d", "/", "r", ".", "m", "d">>, <<"/", "a", "b", "s", "/", "r">>, <<"a", "=", "b", ".", "m", "d">> }

\* the argument vectors tried for the configuration alone: each path switch
\* with each value in both forms, and vectors with bare flags, unrecognized
\* switches, stray words and an empty value
ConfigArgvs ==
  { << Dashed(k), v >> : k \in PathKeys, v \in PathValues }
    \cup { << Dashed(k) \o <<"=">> \o v >> : k \in PathKeys, v \in PathValues }
    \cup { <<>>,
           << <<"-", "-", "d", "e", "b", "u", "g">> >>,
           << <<"-", "-", "r", "u", "l", "e", "s", "-", "f", "i", "l", "e">>, <<"t", "e", "s", "t", "-", "r", "u", "l", "e", "s", ".", "m", "d">>, <<"-", "-", "d", "e", "b", "u", "g">>, <<"-", "-", "e", "n", "v", "-", "f", "i", "l", "e">>, <<".", "e", "n", "v", ".", "t", "e", "s", "t">> >>,
           << <<"s", "t", "r", "a", "y">>, <<"-", "-", "v", "e", "r", "b", "o", "s", "e">>, <<"-", "-", "l", "o", "g", "-", "f", "i", "l", "e", "=", "/", "l">> >>,
           << <<"-", "-", "r", "u", "l", "e", "s", "-", "f", "i", "l", "e", "=">> >>,
           << <<"-", "-", "e", "n", "v", "-", "f", "i", "l", "e">> >>,
           << <<"-", "-", "l", "o", "g", "-", "f", "i", "l", "e">>, <<"-", "-", "r", "u", "l", "e", "s", "-", "f", "i", "l", "e">>, <<"r", ".", "m", "d">> >> }

\* the argument vectors tried
Argvs ==
  { <<>>,
    << <<"-", "-", "r", "u", "l", "e", "s", "-", "f", "i", "l", "e">>, <<"r", ".", "m", "d">>, <<"-", "-", "l", "o", "g", "-", "f", "i", "l", "e", "=", "/", "l">>, <<"-", "-", "e", "n", "v", "-", "f", "i", "l", "e">>, <<"e">>, <<"-", "-", "h", "e", "l", "p">> >>,
    << <<"-", "-", "r", "u", "l", "e", "s", "-", "f", "i", "l", "e">> >> }

(***************************************************************************)
(* The process environment and the env file.                               *)
(***************************************************************************)
TRUE_TEXT == <<"t", "r", "u", "e">>

\* process.env.NAME === text
EnvIs(e, name, text) == name \in DOMAIN e /\ e[name] = text

\* a variant of dotenvPopulate in which the file wins (override: true)
dotenvPopulateOverride(e, parsed) ==
  [k \in (DOMAIN e) \cup (DOMAIN parsed) |->
     IF k \in DOMAIN parsed THEN parsed[k] ELSE e[k]]

\* dotenv.config without override: a variable of the file is set only when
\* the process environment does not have it
dotenvPopulate(e, parsed) ==
  [k \in (DOMAIN e) \cup (DOMAIN parsed) |->
     IF k \in DOMAIN e THEN e[k] ELSE parsed[k]]

\* credentials tried: empty, blank, one short of the minimum, long ones
KeyValues ==
  { <<>>,
    << " " >>,
    Repeat(" ", LongKeyLen),
    Repeat("k", MIN_KEY_LENGTH - 1),
    Repeat("k", LongKeyLen),
    << " " >> \o Repeat("k", LongKeyLen - 1) }

\* what the env file holds once parsed
ParsedFiles ==
  { <<>> } \cup { [n \in {"GEMINI_API_KEY"} |-> v] :
                    v \in { <<>>, Repeat("f", MIN_KEY_LENGTH - 1), Repeat("k", LongKeyLen) } }

\* the outcomes of dotenv.config
DotenvResults ==
  { [error |-> "ENOENT", parsed |-> <<>>], [error |-> "EACCES", parsed |-> <<>>] }
    \cup { [error |-> NONE, parsed |-> f] : f \in ParsedFiles }

\* the test switches of the environment tried, each with the others unset
TestEnvs ==
  { <<>>,
    [n \in {"TEST_EMPTY_DIFF"} |-> TRUE_TEXT],
    [n \in {"TEST_FORCE_PASS"} |-> TRUE_TEXT],
    [n \in {"TEST_FORCE_FAIL"} |-> TRUE_TEXT],
    [n \in {"TEST_FORCE_PASS", "TEST_FORCE_FAIL"} |-> TRUE_TEXT],
    [n \in {"TEST_EMPTY_DIFF", "TEST_FORCE_PASS"} |-> TRUE_TEXT],
    [n \in {"TEST_SIMULATE_ERROR"} |-> <<"t", "o", "k", "e", "n", "-", "c", "o", "u", "n", "t", "i", "n", "g">>],
    [n \in {"TEST_SIMULATE_ERROR"} |-> <<"a", "u", "t", "h", "-", "4", "0", "1">>],
    [n \in {"TEST_SIMULATE_ERROR"} |-> <<"r", "a", "t", "e", "-", "l", "i", "m", "i", "t", "-", "4", "2", "9">>],
    [n \in {"TEST_SIMULATE_ERROR"} |-> <<"s", "e", "r", "v", "e", "r", "-", "5", "0", "0">>],
    [n \in {"TEST_SIMULATE_ERROR"} |-> <<"n", "e", "t", "w", "o", "r", "k", "-", "e", "n", "o", "t", "f", "o", "u", "n", "d">>],
    [n \in {"TEST_SIMULATE_ERROR"} |-> <<"t", "i", "m", "e", "o", "u", "t", "-", "e", "t", "i", "m", "e", "d", "o", "u", "t">>] }

\* the ambient environments: a credential or none, and test switches
AmbientEnvs ==
  { t : t \in TestEnvs } \cup
  { dotenvPopulate([n \in {"GEMINI_API_KEY"} |-> v], t) : v \in KeyValues, t \in TestEnvs }

(***************************************************************************)
(* The staged diff.  A diff can hold millions of characters, so its text   *)
(* is run-length encoded: a sequence of runs [c, n], n >= 1 copies of the  *)
(* character c.                                                            *)
(***************************************************************************)
Run(c, n) == [c |-> c, n |-> n]

\* F of the value of v, v evaluated once
With(v, F(_)) == CHOOSE r \in {F(x) : x \in {v}} : TRUE

RECURSIVE lengthBetween(_, _, _)
\* the number of characters in the runs lo..hi of a text (by halves, to keep
\* the recursion shallow)
lengthBetween(t, lo, hi) ==
  IF lo > hi THEN 0
  ELSE IF lo = hi THEN t[lo].n
  ELSE LET mid == (lo + hi) \div 2
       IN lengthBetween(t, lo, mid) + lengthBetween(t, mid + 1, hi)

\* the number of characters in the first k runs of a text
lengthUpTo(t, k) == lengthBetween(t, 1, k)

\* String.prototype.length of a run-length encoded text
length(t) == lengthUpTo(t, Len(t))

\* a variant of isBlank without the trim: !rawDiff alone
isEmptyOnly(t) == t = <<>>

\* !rawDiff || rawDiff.trim() === ""
isBlank(t) == \A i \in 1..Len(t) : t[i].c \in WhiteSpace

\* a variant of substring0 that starts at the second character:
\* substring(1, n)
substring1(t, n) ==
  LET whole == {k \in 0..Len(t) : lengthUpTo(t, k) <= n}
      K     == CHOOSE k \in whole : \A j \in whole : j <= k
      rest  == n - lengthUpTo(t, K)
      s     == IF K < Len(t) /\ rest > 0
                 THEN SubSeq(t, 1, K) \o <<Run(t[K + 1].c, rest)>>
                 ELSE SubSeq(t, 1, K)
  IN IF s = <<>> THEN s
     ELSE IF s[1].n = 1 THEN Tail(s)
     ELSE <<Run(s[1].c, s[1].n - 1)>> \o Tail(s)

\* String.prototype.substring(0, n) of a run-length encoded text, 0 <= n:
\* the runs that fit whole, then the part of the next run that fits
substring0(t, n) ==
  With({k \in 0..Len(t) : lengthUpTo(t, k) <= n}, LAMBDA whole :
    With(CHOOSE k \in whole : \A j \in whole : j <= k, LAMBDA K :
      With(n - lengthUpTo(t, K), LAMBDA rest :
        IF K < Len(t) /\ rest > 0
          THEN SubSeq(t, 1, K) \o <<Run(t[K + 1].c, rest)>>
          ELSE SubSeq(t, 1, K))))

\* the text of a tuple of characters, one run per character
Runs(s) == [i \in 1..Len(s) |-> Run(s[i], 1)]

\* bouncer.js:698, the diff used when TEST_EMPTY_DIFF is 'true'
TEST_DIFF ==
  Runs(<<"d", "i", "f", "f", " ", "-", "-", "g", "i", "t", " ", "a", "/", "t", "e", "s", "t", ".", "m", "d", " ", "b", "/", "t", "e", "s", "t", ".", "m", "d", "\n", "i", "n", "d", "e", "x", " ", "1", "2", "3", "4", "5", "6", "7", ".", ".", "a", "b", "c", "d", "e", "f", "g", " ", "1", "0", "0", "6", "4", "4", "\n", "-", "-", "-", " ", "a", "/", "t", "e", "s", "t", ".", "m", "d", "\n", "+", "+", "+", " ", "b", "/", "t", "e", "s", "t", ".", "m", "d", "\n", "@", "@", " ", "-", "0", ",", "0", " ", "+", "1", " ", "@", "@", "\n", "+", "T", "e", "s", "t", " ", "d", "i", "f", "f", " ", "f", "o", "r", " ", "A", "P", "I", " ", "e", "r", "r", "o", "r", " ", "t", "e", "s", "t", "i", "n", "g", "\n">>)

\* the staged diffs "git diff --cached" returns
StagedDiffs ==
  { <<>>,
    << Run(" ", 2), Run("\n", 1) >>,
    << Run("+", 1), Run("d", SmallDiffLen - 2), Run("\n", 1) >>,
    << Run("+", 1), Run("d", BigDiffLen - 2), Run("\n", 1) >> }

\* a payload text: the body and, when truncated, the marker with the four
\* numbers it prints
NoMarker == [present |-> FALSE, shown |-> 0, total |-> 0, chars |-> 0, ofChars |-> 0]

Marker(shown, total, chars, ofChars) ==
  [present |-> TRUE, shown |-> shown, total |-> total, chars |-> chars, ofChars |-> ofChars]

RECURSIVE MulDivMod(_, _, _)
\* <<q, r>> with a * b = q * c + r and 0 <= r < c, computed by halving b so
\* that no intermediate value leaves the 32-bit integers of the checker
MulDivMod(a, b, c) ==
  IF b = 0 THEN <<0, 0>>
  ELSE With(MulDivMod(a, b \div 2, c), LAMBDA h :
         With(2 * h[2] + (b % 2) * (a % c), LAMBDA t :
           << 2 * h[1] + (b % 2) * (a \div c) + (t \div c), t % c >>))

\* a variant of estimateTokens that rounds down
estimateTokensFloor(len) == (10 * len) \div FALLBACK_CHARS_X10

\* Math.ceil(text.length / FALLBACK_AVERAGE_CHARS_PER_TOKEN)
estimateTokens(len) == (10 * len + FALLBACK_CHARS_X10 - 1) \div FALLBACK_CHARS_X10

(***************************************************************************)
(* The numbers of the script are IEEE 754 doubles.  A positive double is   *)
(* kept as [m, e], its value m * 2^e with m of at most 53 bits (or 2^53);  *)
(* m is a natural number in limbs of 15 bits, least significant first, so  *)
(* that no product leaves the 32-bit integers of the checker.              *)
(***************************************************************************)
LIMB == 32768

RECURSIVE ToLimbs(_)
ToLimbs(n) == IF n = 0 THEN <<>> ELSE <<n % LIMB>> \o ToLimbs(n \div LIMB)

RECURSIVE ToInt(_)
ToInt(x) == IF x = <<>> THEN 0 ELSE x[1] + LIMB * ToInt(Tail(x))

RECURSIVE Strip(_)
\* without the zero limbs at the top
Strip(x) ==
  IF x # <<>> /\ x[Len(x)] = 0 THEN Strip(SubSeq(x, 1, Len(x) - 1)) ELSE x

RECURSIVE MulSmall(_, _, _)
\* x * c + carry, for c below LIMB
MulSmall(x, c, carry) ==
  With(<<x, carry>>, LAMBDA p :
    IF p[1] = <<>> THEN ToLimbs(p[2])
    ELSE With(p[1][1] * c + p[2], LAMBDA t :
           <<t % LIMB>> \o MulSmall(Tail(p[1]), c, t \div LIMB)))

RECURSIVE BigAdd(_, _, _)
\* x + y + carry
BigAdd(x, y, carry) ==
  With(<<x, y, carry>>, LAMBDA p :
    IF p[1] = <<>> /\ p[2] = <<>> THEN ToLimbs(p[3])
    ELSE With((IF p[1] = <<>> THEN 0 ELSE p[1][1])
              + (IF p[2] = <<>> THEN 0 ELSE p[2][1]) + p[3], LAMBDA t :
           <<t % LIMB>> \o BigAdd(IF p[1] = <<>> THEN p[1] ELSE Tail(p[1]),
                                  IF p[2] = <<>> THEN p[2] ELSE Tail(p[2]),
                                  t \div LIMB)))

RECURSIVE BigMul(_, _)
BigMul(x, y) ==
  With(<<x, y>>, LAMBDA p :
    IF p[2] = <<>> \/ p[1] = <<>> THEN <<>>
    ELSE With(<<MulSmall(p[1], p[2][1], 0), <<0>> \o BigMul(p[1], Tail(p[2]))>>,
              LAMBDA s : BigAdd(s[1], s[2], 0)))

\* the number of bits of x, x without zero limbs at the top
BitLength(x) ==
  IF x = <<>> THEN 0
  ELSE 15 * (Len(x) - 1)
       + (CHOOSE k \in 1..15 : 2^(k - 1) <= x[Len(x)] /\ x[Len(x)] < 2^k)

\* bit i of x, bit 0 the least significant
BitAt(x, i) ==
  IF i \div 15 + 1 > Len(x) THEN 0 ELSE (x[i \div 15 + 1] \div 2^(i % 15)) % 2

\* the bits of x below bit i are all zero
LowZero(x, i) ==
  \A j \in 1..Len(x) :
    IF 15 * j <= i THEN x[j] = 0
    ELSE IF 15 * (j - 1) < i THEN x[j] % 2^(i % 15) = 0
    ELSE TRUE

\* x without its k lowest bits
ShiftRight(x, k) ==
  LET dl == k \div 15
      db == k % 15
  IN IF Len(x) <= dl THEN <<>>
     ELSE Strip([j \in 1..(Len(x) - dl) |->
                   (x[j + dl] \div 2^db)
                   + (IF j + dl + 1 <= Len(x)
                        THEN (x[j + dl + 1] % 2^db) * 2^(15 - db) ELSE 0)])

\* x, followed by a non-zero part below its lowest bit when sticky, rounded
\* to 53 bits, to nearest and to even on a tie: [m, e] with m * 2^e the
\* rounded value
Round53(x, sticky) ==
  With(x, LAMBDA n :
    With(BitLength(n) - 53, LAMBDA drop :
      IF drop <= 0 THEN [m |-> n, e |-> 0]
      ELSE LET up == /\ BitAt(n, drop - 1) = 1
                     /\ (sticky \/ ~LowZero(n, drop - 1) \/ BitAt(n, drop) = 1)
           IN [m |-> IF up THEN BigAdd(ShiftRight(n, drop), <<>>, 1)
                     ELSE ShiftRight(n, drop),
               e |-> drop]))

\* the double of an integer below 2^31
FromInt(n) == [m |-> ToLimbs(n), e |-> 0]

\* the limbs after the binary point kept by fdiv before it rounds
FRAC_LIMBS == 6

RECURSIVE FracLimbs(_, _, _)
\* k limbs of rem / b after the binary point, and what remains
FracLimbs(rem, b, k) ==
  IF k = 0 THEN [limbs |-> <<>>, rem |-> rem]
  ELSE With(MulDivMod(rem, LIMB, b), LAMBDA qr :
         With(FracLimbs(qr[2], b, k - 1), LAMBDA rest :
           [limbs |-> Append(rest.limbs, qr[1]), rem |-> rest.rem]))

\* a / b of two positive integers below 2^30, as a double
fdiv(a, b) ==
  With(FracLimbs(a % b, b, FRAC_LIMBS), LAMBDA frac :
    With(Round53(Strip(frac.limbs \o ToLimbs(a \div b)), frac.rem # 0), LAMBDA r :
      [m |-> r.m, e |-> r.e - 15 * FRAC_LIMBS]))

\* x * y of two doubles
fmul(x, y) ==
  With(Round53(Strip(BigMul(x.m, y.m)), FALSE), LAMBDA r :
    [m |-> r.m, e |-> x.e + y.e + r.e])

\* Math.floor of a double below 2^31
ffloor(x) ==
  IF x.e >= 0 THEN ToInt(x.m) * 2^x.e ELSE ToInt(ShiftRight(x.m, 0 - x.e))

\* the literal 0.95: 8556839292003942 * 2^-53
SAFETY_FACTOR == [m |-> <<26214, 19660, 6553, 243>>, e |-> -53]

\* a variant of safeCharLimit in exact arithmetic:
\* floor(800000 * 95 * len / (100 * tokenCount))
safeCharLimitExact(len, tokenCount) ==
  MulDivMod(TOKEN_LIMIT_THRESHOLD * SAFETY_PERCENT, len, 100 * tokenCount)[1]

\* Math.floor(TOKEN_LIMIT_THRESHOLD * (diff.length / tokenCount) * 0.95), the
\* product taken from the left, each operation rounded to a double
safeCharLimit(len, tokenCount) ==
  With(<<len, tokenCount>>, LAMBDA d :
    With(fdiv(d[1], d[2]), LAMBDA charRatio :
      With(fmul(FromInt(TOKEN_LIMIT_THRESHOLD), charRatio), LAMBDA product :
        With(fmul(product, SAFETY_FACTOR), LAMBDA limit : ffloor(limit)))))

\* the token counts the count call returns
CountResponses == {1, TOKEN_LIMIT_THRESHOLD, TOKEN_LIMIT_THRESHOLD + 1, BigCount}

(***************************************************************************)
(* Errors of the collaborators.                                            *)
(***************************************************************************)
\* an error of the Gemini client: status (0 when it has none), code, message
ApiError(status, code, message) == [status |-> status, code |-> code, message |-> message]

GeminiErrors ==
  { ApiError(401, NONE, <<"I", "n", "v", "a", "l", "i", "d", " ", "A", "P", "I", " ", "k", "e", "y">>),
    ApiError(403, NONE, <<"F", "o", "r", "b", "i", "d", "d", "e", "n">>),
    ApiError(429, NONE, <<"R", "a", "t", "e", " ", "l", "i", "m", "i", "t", " ", "e", "x", "c", "e", "e", "d", "e", "d">>),
    ApiError(500, NONE, <<"I", "n", "t", "e", "r", "n", "a", "l", " ", "s", "e", "r", "v", "e", "r", " ", "e", "r", "r", "o", "r">>),
    ApiError(404, "ETIMEDOUT", <<"q", "u", "o", "t", "a">>),
    ApiError(403, "ECONNREFUSED", <<"q", "u", "o", "t", "a", " ", "e", "x", "c", "e", "e", "d", "e", "d">>),
    ApiError(0, "ENOTFOUND", <<"g", "e", "t", "a", "d", "d", "r", "i", "n", "f", "o", " ", "E", "N", "O", "T", "F", "O", "U", "N", "D">>),
    ApiError(0, "ECONNREFUSED", <<"c", "o", "n", "n", "e", "c", "t", " ", "E", "C", "O", "N", "N", "R", "E", "F", "U", "S", "E", "D">>),
    ApiError(0, "ETIMEDOUT", <<"C", "o", "n", "n", "e", "c", "t", "i", "o", "n", " ", "t", "i", "m", "e", "d", " ", "o", "u", "t">>),
    ApiError(0, NONE, <<"Q", "u", "o", "t", "a", " ", "e", "x", "c", "e", "e", "d", "e", "d", " ", "f", "o", "r", " ", "y", "o", "u", "r", " ", "p", "r", "o", "j", "e", "c", "t">>),
    ApiError(0, NONE, <<"q", "u", "o", "t", "a", " ", "e", "x", "c", "e", "e", "d", "e", "d">>),
    ApiError(0, NONE, <<"S", "o", "m", "e", "t", "h", "i", "n", "g", " ", "u", "n", "e", "x", "p", "e", "c", "t", "e", "d", " ", "h", "a", "p", "p", "e", "n", "e", "d">>),
    ApiError(0, NONE, <<>>) }

\* the errors tried for the count calls
CountErrors ==
  { ApiError(429, NONE, <<"R", "a", "t", "e", " ", "l", "i", "m", "i", "t", " ", "e", "x", "c", "e", "e", "d", "e", "d">>),
    ApiError(0, "ENOTFOUND", <<"g", "e", "t", "a", "d", "d", "r", "i", "n", "f", "o", " ", "E", "N", "O", "T", "F", "O", "U", "N", "D">>) }

\* an error of execSync: code and message
GitError(code, message) == [code |-> code, message |-> message]

NotARepository == GitError(NONE, <<"C", "o", "m", "m", "a", "n", "d", " ", "f", "a", "i", "l", "e", "d", ":", " ", "g", "i", "t", "\n", "f", "a", "t", "a", "l", ":", " ", "n", "o", "t", " ", "a", " ", "g", "i", "t", " ", "r", "e", "p", "o", "s", "i", "t", "o", "r", "y", " ", "(", "o", "r", " ", "a", "n", "y", " ", "o", "f", " ", "t", "h", "e", " ", "p", "a", "r", "e", "n", "t", " ", "d", "i", "r", "e", "c", "t", "o", "r", "i", "e", "s", ")", ":", " ", ".", "g", "i", "t">>)

GitErrors ==
  { NotARepository,
    GitError(NONE, <<"f", "a", "t", "a", "l", ":", " ", "N", "o", "t", " ", "a", " ", "g", "i", "t", " ", "r", "e", "p", "o", "s", "i", "t", "o", "r", "y">>),
    GitError("ENOENT", <<"s", "p", "a", "w", "n", "S", "y", "n", "c", " ", "/", "b", "i", "n", "/", "s", "h", " ", "E", "N", "O", "E", "N", "T">>),
    GitError(NONE, <<"f", "a", "t", "a", "l", ":", " ", ".", "g", "i", "t", "/", "i", "n", "d", "e", "x", " ", "n", "o", "t", " ", "f", "o", "u", "n", "d">>),
    GitError(NONE, <<"e", "r", "r", "o", "r", ":", " ", "p", "a", "t", "h", "s", "p", "e", "c", " ", "d", "i", "d", " ", "n", "o", "t", " ", "m", "a", "t", "c", "h", " ", "a", "n", "y", " ", "f", "i", "l", "e", "s">>),
    GitError(NONE, <<"f", "a", "t", "a", "l", ":", " ", "N", "o", "t", " ", "a", " ", "v", "a", "l", "i", "d", " ", "o", "b", "j", "e", "c", "t", " ", "n", "a", "m", "e", " ", "H", "E", "A", "D">>),
    GitError(NONE, <<"f", "a", "t", "a", "l", ":", " ", "u", "n", "a", "b", "l", "e", " ", "t", "o", " ", "r", "e", "a", "d", " ", "t", "r", "e", "e">>) }

\* a variant of GitErrorClass that matches the message as it is, without
\* toLowerCase
GitErrorClassCaseSensitive(error) ==
  LET m == error.message IN
  IF error.code = "ENOENT"
    THEN <<"Not Found", <<"G", "i", "t", " ", "e", "x", "e", "c", "u", "t", "a", "b", "l", "e", " ", "n", "o", "t", " ", "f", "o", "u", "n", "d", " ", "i", "n", " ", "P", "A", "T", "H", ".">>>>
  ELSE IF error.message # <<>> /\
          ( includes(m, <<"n", "o", "t", " ", "a", " ", "g", "i", "t", " ", "r", "e", "p", "o", "s", "i", "t", "o", "r", "y">>)
            \/ (includes(m, <<"n", "o", "t", " ", "f", "o", "u", "n", "d">>) /\ includes(m, <<".", "g", "i", "t">>)) )
    THEN <<"Repository", <<"N", "o", "t", " ", "a", " ", "g", "i", "t", " ", "r", "e", "p", "o", "s", "i", "t", "o", "r", "y", " ", "(", "o", "r", " ", "a", "n", "y", " ", "o", "f", " ", "t", "h", "e", " ", "p", "a", "r", "e", "n", "t", " ", "d", "i", "r", "e", "c", "t", "o", "r", "i", "e", "s", ")", ".">>>>
  ELSE IF error.message # <<>> /\
          ( includes(m, <<"d", "i", "d", " ", "n", "o", "t", " ", "m", "a", "t", "c", "h", " ", "a", "n", "y", " ", "f", "i", "l", "e", "s">>)
            \/ includes(m, <<"n", "o", " ", "s", "t", "a", "g", "e", "d", " ", "c", "h", "a", "n", "g", "e", "s">>)
            \/ includes(m, <<"n", "o", " ", "c", "h", "a", "n", "g", "e", "s", " ", "a", "d", "d", "e", "d", " ", "t", "o", " ", "c", "o", "m", "m", "i", "t">>) )
    THEN <<"No Changes", <<"N", "o", " ", "s", "t", "a", "g", "e", "d", " ", "c", "h", "a", "n", "g", "e", "s", " ", "f", "o", "u", "n", "d", ".">>>>
  ELSE IF error.message # <<>> /\ includes(m, <<"n", "o", "t", " ", "a", " ", "v", "a", "l", "i", "d", " ", "o", "b", "j", "e", "c", "t", " ", "n", "a", "m", "e">>)
    THEN <<"No Commits", <<"N", "o", " ", "c", "o", "m", "m", "i", "t", " ", "h", "i", "s", "t", "o", "r", "y", " ", "f", "o", "u", "n", "d", ".">>>>
  ELSE <<"Command", IF error.message # <<>> THEN error.message ELSE <<"E", "r", "r", "o", "r">>>>

\* the classification of handleGitCommandError: <<errorType, errorMessage>>
GitErrorClass(error) ==
  LET m == toLowerCase(error.message) IN
  IF error.code = "ENOENT"
    THEN <<"Not Found", <<"G", "i", "t", " ", "e", "x", "e", "c", "u", "t", "a", "b", "l", "e", " ", "n", "o", "t", " ", "f", "o", "u", "n", "d", " ", "i", "n", " ", "P", "A", "T", "H", ".">>>>
  ELSE IF error.message # <<>> /\
          ( includes(m, <<"n", "o", "t", " ", "a", " ", "g", "i", "t", " ", "r", "e", "p", "o", "s", "i", "t", "o", "r", "y">>)
            \/ (includes(m, <<"n", "o", "t", " ", "f", "o", "u", "n", "d">>) /\ includes(m, <<".", "g", "i", "t">>)) )
    THEN <<"Repository", <<"N", "o", "t", " ", "a", " ", "g", "i", "t", " ", "r", "e", "p", "o", "s", "i", "t", "o", "r", "y", " ", "(", "o", "r", " ", "a", "n", "y", " ", "o", "f", " ", "t", "h", "e", " ", "p", "a", "r", "e", "n", "t", " ", "d", "i", "r", "e", "c", "t", "o", "r", "i", "e", "s", ")", ".">>>>
  ELSE IF error.message # <<>> /\
          ( includes(m, <<"d", "i", "d", " ", "n", "o", "t", " ", "m", "a", "t", "c", "h", " ", "a", "n", "y", " ", "f", "i", "l", "e", "s">>)
            \/ includes(m, <<"n", "o", " ", "s", "t", "a", "g", "e", "d", " ", "c", "h", "a", "n", "g", "e", "s">>)
            \/ includes(m, <<"n", "o", " ", "c", "h", "a", "n", "g", "e", "s", " ", "a", "d", "d", "e", "d", " ", "t", "o", " ", "c", "o", "m", "m", "i", "t">>) )
    THEN <<"No Changes", <<"N", "o", " ", "s", "t", "a", "g", "e", "d", " ", "c", "h", "a", "n", "g", "e", "s", " ", "f", "o", "u", "n", "d", ".">>>>
  ELSE IF error.message # <<>> /\ includes(m, <<"n", "o", "t", " ", "a", " ", "v", "a", "l", "i", "d", " ", "o", "b", "j", "e", "c", "t", " ", "n", "a", "m", "e">>)
    THEN <<"No Commits", <<"N", "o", " ", "c", "o", "m", "m", "i", "t", " ", "h", "i", "s", "t", "o", "r", "y", " ", "f", "o", "u", "n", "d", ".">>>>
  ELSE <<"Command", IF error.message # <<>> THEN error.message ELSE <<"E", "r", "r", "o", "r">>>>

\* a variant of GeminiErrorClass that looks at the code before the status
GeminiErrorClassCodeFirst(error) ==
  IF error.code = "ENOTFOUND" \/ error.code = "ECONNREFUSED"
    THEN <<"Network", <<"C", "o", "u", "l", "d", " ", "n", "o", "t", " ", "c", "o", "n", "n", "e", "c", "t", " ", "t", "o", " ", "G", "e", "m", "i", "n", "i", " ", "A", "P", "I", ".">>>>
  ELSE IF error.code = "ETIMEDOUT"
    THEN <<"Timeout", <<"T", "h", "e", " ", "G", "e", "m", "i", "n", "i", " ", "A", "P", "I", " ", "i", "s", " ", "t", "a", "k", "i", "n", "g", " ", "t", "o", "o", " ", "l", "o", "n", "g", " ", "t", "o", " ", "r", "e", "s", "p", "o", "n", "d", ".">>>>
  ELSE IF error.status # 0
    THEN IF error.status = 401 \/ error.status = 403
           THEN <<"Authentication", <<"I", "n", "v", "a", "l", "i", "d", " ", "A", "P", "I", " ", "k", "e", "y", " ", "o", "r", " ", "i", "n", "s", "u", "f", "f", "i", "c", "i", "e", "n", "t", " ", "p", "e", "r", "m", "i", "s", "s", "i", "o", "n", "s", ".">>>>
         ELSE IF error.status = 429
           THEN <<"Rate Limit", <<"R", "a", "t", "e", " ", "l", "i", "m", "i", "t", " ", "o", "r", " ", "q", "u", "o", "t", "a", " ", "e", "x", "c", "e", "e", "d", "e", "d", " ", "f", "o", "r", " ", "G", "e", "m", "i", "n", "i", " ", "A", "P", "I", ".">>>>
         ELSE IF error.status >= 500
           THEN <<"Server", <<"G", "e", "m", "i", "n", "i", " ", "A", "P", "I", " ", "i", "s", " ", "c", "u", "r", "r", "e", "n", "t", "l", "y", " ", "e", "x", "p", "e", "r", "i", "e", "n", "c", "i", "n", "g", " ", "i", "s", "s", "u", "e", "s", ".">>>>
         ELSE <<"API (" \o ToString(error.status) \o ")",
                IF error.message # <<>> THEN error.message ELSE <<"U", "n", "k", "n", "o", "w", "n", " ", "e", "r", "r", "o", "r">>>>
  ELSE IF error.message # <<>> /\ includes(error.message, <<"q", "u", "o", "t", "a">>)
    THEN <<"Quota", <<"Y", "o", "u", "r", " ", "G", "e", "m", "i", "n", "i", " ", "A", "P", "I", " ", "q", "u", "o", "t", "a", " ", "h", "a", "s", " ", "b", "e", "e", "n", " ", "e", "x", "c", "e", "e", "d", "e", "d", ".">>>>
  ELSE <<"Unexpected", IF error.message # <<>> THEN error.message ELSE <<"E", "r", "r", "o", "r">>>>

\* the classification of handleGeminiApiError: <<errorType, errorMessage>>
GeminiErrorClass(error) ==
  IF error.status # 0
    THEN IF error.status = 401 \/ error.status = 403
           THEN <<"Authentication", <<"I", "n", "v", "a", "l", "i", "d", " ", "A", "P", "I", " ", "k", "e", "y", " ", "o", "r", " ", "i", "n", "s", "u", "f", "f", "i", "c", "i", "e", "n", "t", " ", "p", "e", "r", "m", "i", "s", "s", "i", "o", "n", "s", ".">>>>
         ELSE IF error.status = 429
           THEN <<"Rate Limit", <<"R", "a", "t", "e", " ", "l", "i", "m", "i", "t", " ", "o", "r", " ", "q", "u", "o", "t", "a", " ", "e", "x", "c", "e", "e", "d", "e", "d", " ", "f", "o", "r", " ", "G", "e", "m", "i", "n", "i", " ", "A", "P", "I", ".">>>>
         ELSE IF error.status >= 500
           THEN <<"Server", <<"G", "e", "m", "i", "n", "i", " ", "A", "P", "I", " ", "i", "s", " ", "c", "u", "r", "r", "e", "n", "t", "l", "y", " ", "e", "x", "p", "e", "r", "i", "e", "n", "c", "i", "n", "g", " ", "i", "s", "s", "u", "e", "s", ".">>>>
         ELSE <<"API (" \o ToString(error.status) \o ")",
                IF error.message # <<>> THEN error.message ELSE <<"U", "n", "k", "n", "o", "w", "n", " ", "e", "r", "r", "o", "r">>>>
  ELSE IF error.code = "ENOTFOUND" \/ error.code = "ECONNREFUSED"
    THEN <<"Network", <<"C", "o", "u", "l", "d", " ", "n", "o", "t", " ", "c", "o", "n", "n", "e", "c", "t", " ", "t", "o", " ", "G", "e", "m", "i", "n", "i", " ", "A", "P", "I", ".">>>>
  ELSE IF error.code = "ETIMEDOUT"
    THEN <<"Timeout", <<"T", "h", "e", " ", "G", "e", "m", "i", "n", "i", " ", "A", "P", "I", " ", "i", "s", " ", "t", "a", "k", "i", "n", "g", " ", "t", "o", "o", " ", "l", "o", "n", "g", " ", "t", "o", " ", "r", "e", "s", "p", "o", "n", "d", ".">>>>
  ELSE IF error.message # <<>> /\ includes(error.message, <<"q", "u", "o", "t", "a">>)
    THEN <<"Quota", <<"Y", "o", "u", "r", " ", "G", "e", "m", "i", "n", "i", " ", "A", "P", "I", " ", "q", "u", "o", "t", "a", " ", "h", "a", "s", " ", "b", "e", "e", "n", " ", "e", "x", "c", "e", "e", "d", "e", "d", ".">>>>
  ELSE <<"Unexpected", IF error.message # <<>> THEN error.message ELSE <<"E", "r", "r", "o", "r">>>>

(***************************************************************************)
(* Audit records.  Every record has the same fields here; a field the      *)
(* handler does not write is NONE (a text: <<>>, a number: -1).            *)
(***************************************************************************)
NoError == [type |-> NONE, message |-> <<>>, code |-> NONE, status |-> -1]

NoUsage ==
  [present |-> FALSE, inputTokens |-> -1, outputTokens |-> -1, totalTokens |-> -1,
   diffTokens |-> -1, truncated |-> FALSE, originalDiffTokens |-> -1]

\* reason: `${prefix}: ${type} - ${message}`, or the bare response text
Reason(prefix, type, message) == [prefix |-> prefix, type |-> type, message |-> message]

API_KEY_ERROR == <<"<", "a", "p", "i", "-", "k", "e", "y", "-", "e", "r", "r", "o", "r", ">">>

GIT_COMMAND_ERROR == <<"<", "g", "i", "t", "-", "c", "o", "m", "m", "a", "n", "d", "-", "e", "r", "r", "o", "r", ">">>

RULES_FILE_ERROR == <<"<", "r", "u", "l", "e", "s", "-", "f", "i", "l", "e", "-", "e", "r", "r", "o", "r", ">">>

GEMINI_API_ERROR == <<"<", "g", "e", "m", "i", "n", "i", "-", "a", "p", "i", "-", "e", "r", "r", "o", "r", ">">>

NEW_COMMIT == <<"<", "n", "e", "w", ">">>

\* the record handleApiKeyError writes
ApiKeyRecord(errorMessage, envPath) ==
  [commit |-> API_KEY_ERROR, verdict |-> "ERROR",
   reason |-> Reason("API Key Error", NONE, errorMessage),
   source |-> envPath, command |-> NONE, operation |-> NONE,
   error |-> NoError, usage |-> NoUsage]

\* the record handleGitCommandError writes
GitRecord(command, error) ==
  LET class == GitErrorClass(error) IN
  [commit |-> GIT_COMMAND_ERROR, verdict |-> "ERROR",
   reason |-> Reason("Git Command Error", class[1], class[2]),
   source |-> <<>>, command |-> command, operation |-> NONE,
   error |-> [type |-> class[1], message |-> class[2], code |-> error.code, status |-> -1],
   usage |-> NoUsage]

\* a variant of RulesRecord with the commit sentinel of the git handler
RulesRecordGitSentinel(errorMessage, originalMessage, rulesPath) ==
  [commit |-> GIT_COMMAND_ERROR, verdict |-> "ERROR",
   reason |-> Reason("Rules File Error", NONE, errorMessage),
   source |-> rulesPath, command |-> NONE, operation |-> NONE,
   error |-> [type |-> NONE, message |-> originalMessage, code |-> NONE, status |-> -1],
   usage |-> NoUsage]

\* the record handleRulesFileError writes; its error field is the bare
\* message of the original error
RulesRecord(errorMessage, originalMessage, rulesPath) ==
  [commit |-> RULES_FILE_ERROR, verdict |-> "ERROR",
   reason |-> Reason("Rules File Error", NONE, errorMessage),
   source |-> rulesPath, command |-> NONE, operation |-> NONE,
   error |-> [type |-> NONE, message |-> originalMessage, code |-> NONE, status |-> -1],
   usage |-> NoUsage]

\* the metadata of a handleGeminiApiError call: {} or {commit, usage}
NoMetadata == [present |-> FALSE, commit |-> <<>>, usage |-> NoUsage]

\* the record handleGeminiApiError writes; ...metadata is spread last, so
\* the commit of the metadata, when it has one, is the commit of the record
GeminiRecord(operation, error, metadata) ==
  LET class == GeminiErrorClass(error) IN
  [commit |-> IF metadata.present THEN metadata.commit ELSE GEMINI_API_ERROR,
   verdict |-> "ERROR",
   reason |-> Reason("Gemini API Error", class[1], class[2]),
   source |-> <<>>, command |-> NONE, operation |-> operation,
   error |-> [type |-> class[1], message |-> class[2], code |-> error.code,
              status |-> IF error.status = 0 THEN -1 ELSE error.status],
   usage |-> metadata.usage]

\* a variant of VerdictRecord that leaves the usage out
VerdictRecordNoUsage(commit, verdict, text, usage) ==
  [commit |-> commit, verdict |-> verdict,
   reason |-> Reason(NONE, NONE, text),
   source |-> <<>>, command |-> NONE, operation |-> NONE,
   error |-> NoError, usage |-> NoUsage]

\* the record of the verdict
VerdictRecord(commit, verdict, text, usage) ==
  [commit |-> commit, verdict |-> verdict,
   reason |-> Reason(NONE, NONE, text),
   source |-> <<>>, command |-> NONE, operation |-> NONE,
   error |-> NoError, usage |-> usage]

(***************************************************************************)
(* The verdict.                                                            *)
(***************************************************************************)
PASS_TEXT == <<"P", "A", "S", "S">>

\* a variant of regexPassI without the i flag: /PASS/.test(text)
regexPassCaseSensitive(text) ==
  \E i \in 1..(Len(text) - 3) : \A j \in 1..4 : text[i + j - 1] = PASS_TEXT[j]

\* /PASS/i.test(text): some window of four characters is P, A, S, S once
\* each character is canonicalised (upper-cased)
regexPassI(text) ==
  \E i \in 1..(Len(text) - 3) : \A j \in 1..4 : UpperOf(text[i + j - 1]) = PASS_TEXT[j]

FORCED_PASS_TEXT == <<"P", "A", "S", "S", " ", "-", " ", "T", "e", "s", "t", " ", "f", "o", "r", "c", "e", "d", " ", "p", "a", "s", "s">>

FORCED_FAIL_TEXT == <<"F", "A", "I", "L", " ", "-", " ", "T", "e", "s", "t", " ", "f", "o", "r", "c", "e", "d", " ", "f", "a", "i", "l">>

\* bouncer.js:833-842: <<verdict, res.text afterwards>>
interpret(e, text) ==
  IF EnvIs(e, "TEST_FORCE_PASS", TRUE_TEXT) THEN <<"PASS", FORCED_PASS_TEXT>>
  ELSE IF EnvIs(e, "TEST_FORCE_FAIL", TRUE_TEXT) THEN <<"FAIL", FORCED_FAIL_TEXT>>
  ELSE <<IF regexPassI(text) THEN "PASS" ELSE "FAIL", text>>

\* a || b on numbers, 0 standing for the absent and null values
OrElse(a, b) == IF a # 0 THEN a ELSE b

NoUsageMetadata == [promptTokenCount |-> 0, candidatesTokenCount |-> 0, totalTokenCount |-> 0]

\* a variant of tokenUsageOf whose diffTokens is the prompt token count of
\* the response when it has one
tokenUsageOfPromptTokens(usageMetadata, info) ==
  [present |-> TRUE,
   inputTokens |-> OrElse(usageMetadata.promptTokenCount, OrElse(info.tokenCount, 0)),
   outputTokens |-> OrElse(usageMetadata.candidatesTokenCount, 0),
   totalTokens |-> OrElse(usageMetadata.totalTokenCount, 0),
   diffTokens |-> OrElse(usageMetadata.promptTokenCount, info.tokenCount),
   truncated |-> info.truncated,
   originalDiffTokens |-> IF info.truncated THEN info.originalTokenCount ELSE -1]

\* a variant of tokenUsageOf that never writes originalDiffTokens
tokenUsageOfNoOriginal(usageMetadata, info) ==
  [present |-> TRUE,
   inputTokens |-> OrElse(usageMetadata.promptTokenCount, OrElse(info.tokenCount, 0)),
   outputTokens |-> OrElse(usageMetadata.candidatesTokenCount, 0),
   totalTokens |-> OrElse(usageMetadata.totalTokenCount, 0),
   diffTokens |-> info.tokenCount,
   truncated |-> info.truncated,
   originalDiffTokens |-> -1]

\* bouncer.js:845-855, with null written 0
tokenUsageOf(usageMetadata, info) ==
  [present |-> TRUE,
   inputTokens |-> OrElse(usageMetadata.promptTokenCount, OrElse(info.tokenCount, 0)),
   outputTokens |-> OrElse(usageMetadata.candidatesTokenCount, 0),
   totalTokens |-> OrElse(usageMetadata.totalTokenCount, 0),
   diffTokens |-> info.tokenCount,
   truncated |-> info.truncated,
   originalDiffTokens |-> IF info.truncated THEN info.originalTokenCount ELSE -1]

\* a variant of errorUsageOf that reports the count of the whole diff
errorUsageOfOriginal(info) ==
  [present |-> TRUE, inputTokens |-> -1, outputTokens |-> -1, totalTokens |-> -1,
   diffTokens |-> IF info.truncated THEN info.originalTokenCount ELSE info.tokenCount,
   truncated |-> info.truncated,
   originalDiffTokens |-> IF info.truncated THEN info.originalTokenCount ELSE -1]

\* bouncer.js:906-910, the usage of the generation error record
errorUsageOf(info) ==
  [present |-> TRUE, inputTokens |-> -1, outputTokens |-> -1, totalTokens |-> -1,
   diffTokens |-> info.tokenCount,
   truncated |-> info.truncated,
   originalDiffTokens |-> IF info.truncated THEN info.originalTokenCount ELSE -1]

\* the response texts tried
ResponseTexts ==
  { <<>>,
    <<"P", "A", "S", "S">>,
    <<"p", "a", "s", "s", " ", "-", " ", "o", "k">>,
    <<"P", "a", "s", "s">>,
    <<"F", "A", "I", "L", " ", "-", " ", "b", "a", "d">>,
    <<"F", "A", "I", "L", " ", "-", " ", "h", "a", "r", "d", "c", "o", "d", "e", "d", " ", "p", "a", "s", "s", "w", "o", "r", "d">>,
    <<"F", "A", "I", "L", " ", "-", " ", "d", "o", "e", "s", " ", "n", "o", "t", " ", "P", "A", "S", "S", " ", "r", "u", "l", "e", " ", "2">>,
    <<"P", "A", "S", " ", "S">>,
    <<"I", " ", "c", "a", "n", "n", "o", "t", " ", "d", "e", "c", "i", "d", "e">> }

Responses ==
  { [text |-> t, usageMetadata |-> NoUsageMetadata] : t \in ResponseTexts }
    \cup { [text |-> <<"P", "A", "S", "S", " ", "-", " ", "o", "k">>, usageMetadata |->
             [promptTokenCount |-> 12, candidatesTokenCount |-> 3, totalTokenCount |-> 15]] }

NoResponse == [text |-> <<>>, usageMetadata |-> NoUsageMetadata]

(***************************************************************************)
(* The state of one run.                                                   *)
(***************************************************************************)
VARIABLES
  pc,             \* the statement of the script the run is at
  argv,           \* process.argv.slice(2)
  cliArgs,        \* the parsed arguments
  envFilePath, rulesFilePath, logFilePath,
  env,            \* process.env
  rawDiff,        \* the staged diff
  tokenCount,     \* the first count in handlePotentiallyLargeDiff
  truncatedDiff,  \* the prefix kept by handlePotentiallyLargeDiff
  diffInfo,       \* the payload handlePotentiallyLargeDiff returns
  commit,         \* the revision id
  rules,          \* the rule text
  prompt,         \* the parts of the prompt: rules, commit, diff
  res,            \* the response of the generation call
  verdict,        \* PASS, FAIL, or NONE before the verdict
  log,            \* the content of the log file: the records written
  appended,       \* the records handed to fs.appendFile, written or not
  trace,          \* the calls made to the collaborators, in order
  banner,         \* the banner printed, or NONE
  exitCode,       \* the exit code, -1 while the run goes on
  peer            \* another invocation that appends to the same log file

vars ==
  <<pc, argv, cliArgs, envFilePath, rulesFilePath, logFilePath, env, rawDiff,
    tokenCount, truncatedDiff, diffInfo, commit, rules, prompt, res, verdict,
    log, appended, trace, banner, exitCode, peer>>

NoArgs == [k \in {} |-> FlagValue]

NoDiffInfo ==
  [diff |-> [body |-> <<>>, marker |-> NoMarker], tokenCount |-> -1,
   originalTokenCount |-> -1, truncated |-> FALSE]

NoPrompt == [rules |-> <<>>, commit |-> <<>>, diff |-> [body |-> <<>>, marker |-> NoMarker]]

\* a call to a collaborator, whether it returned normally, and the text it
\* returned or the message of the error it threw
Call(op, ok, result) == [op |-> op, ok |-> ok, result |-> result, n |-> -1]

\* a count call: n is the totalTokens of its response, -1 when it threw
CountCall(ok, result, n) == [op |-> "countTokens", ok |-> ok, result |-> result, n |-> n]

\* no other invocation runs against the log file
NoPeer == [records |-> <<>>, code |-> -1, handed |-> 0, at |-> <<>>, exitCode |-> -1]

\* the log file as earlier runs left it
PriorLog ==
  << VerdictRecord(<<"0", "f", "9", "e", "8", "d">>, "PASS", <<"P", "A", "S", "S">>,
                   [present |-> TRUE, inputTokens |-> 12, outputTokens |-> 3,
                    totalTokens |-> 15, diffTokens |-> 12, truncated |-> FALSE,
                    originalDiffTokens |-> -1]) >>

Init ==
  /\ pc = "parseArguments"
  /\ argv \in Argvs
  /\ env \in AmbientEnvs
  /\ cliArgs = NoArgs
  /\ envFilePath = <<>>
  /\ rulesFilePath = <<>>
  /\ logFilePath = <<>>
  /\ rawDiff = <<>>
  /\ tokenCount = -1
  /\ truncatedDiff = <<>>
  /\ diffInfo = NoDiffInfo
  /\ commit = <<>>
  /\ rules = <<>>
  /\ prompt = NoPrompt
  /\ res = NoResponse
  /\ verdict = NONE
  /\ log = PriorLog
  /\ appended = <<>>
  /\ trace = <<>>
  /\ banner = NONE
  /\ exitCode = -1
  /\ peer = NoPeer

\* a variant of Exit in which a failed write to the log makes the exit code 1
ExitLogFailureFatal(code, cs) ==
  /\ pc' = "exited"
  /\ exitCode' = IF \E i \in 1..Len(trace \o cs) :
                       (trace \o cs)[i].op = "appendFile" /\ ~(trace \o cs)[i].ok
                    THEN 1 ELSE code
  /\ trace' = trace \o cs

\* process.exit(code), after the calls cs
Exit(code, cs) ==
  /\ pc' = "exited"
  /\ exitCode' = code
  /\ trace' = trace \o cs

\* a variant of AppendFile that writes the file anew (fs.writeFile)
AppendFileOverwriting(record, ok) ==
  /\ appended' = Append(appended, record)
  /\ log' = IF ok THEN <<record>> ELSE log

\* a variant of AppendFile that writes the file anew from what the run
\* found in it and the records of the run (read, modify, write)
AppendFileRewriting(record, ok) ==
  /\ appended' = Append(appended, record)
  /\ log' = IF ok THEN PriorLog \o Append(appended, record) ELSE log

\* await fs.appendFile(logFilePath, record) inside try/catch: the record is
\* written when the write succeeds, and a failure is only warned about
AppendFile(record, ok) ==
  /\ appended' = Append(appended, record)
  /\ log' = IF ok THEN Append(log, record) ELSE log

(***************************************************************************)
(* bouncer.js:347-361: parse the arguments and resolve the three paths.    *)
(* path.resolve of a bare flag (true) throws; nothing catches it and node  *)
(* ends the process with code 1.                                           *)
(***************************************************************************)
ResolveConfig ==
  /\ pc = "parseArguments"
  /\ LET args == parseArguments(argv) IN
     /\ cliArgs' = args
     /\ IF ResolveThrows(args, ENV_FILE) \/ ResolveThrows(args, RULES_FILE)
           \/ ResolveThrows(args, LOG_FILE)
          THEN /\ Exit(1, <<>>)
               /\ envFilePath' =
                    IF ResolveThrows(args, ENV_FILE) THEN <<>>
                    ELSE ResolvedPath(args, ENV_FILE, <<".", "/", ".", "e", "n", "v">>)
               /\ rulesFilePath' =
                    IF ResolveThrows(args, ENV_FILE) \/ ResolveThrows(args, RULES_FILE)
                      THEN <<>>
                    ELSE ResolvedPath(args, RULES_FILE, <<".", "/", "r", "u", "l", "e", "s", ".", "m", "d">>)
               /\ logFilePath' = <<>>
          ELSE /\ envFilePath' = ResolvedPath(args, ENV_FILE, <<".", "/", ".", "e", "n", "v">>)
               /\ rulesFilePath' = ResolvedPath(args, RULES_FILE, <<".", "/", "r", "u", "l", "e", "s", ".", "m", "d">>)
               /\ logFilePath' = ResolvedPath(args, LOG_FILE, <<".", "/", ".", "b", "o", "u", "n", "c", "e", "r", ".", "l", "o", "g", ".", "j", "s", "o", "n", "l">>)
               /\ pc' = "loadEnv"
               /\ UNCHANGED <<exitCode, trace>>
  /\ UNCHANGED <<peer, argv, env, rawDiff, tokenCount, truncatedDiff, diffInfo, commit,
                 rules, prompt, res, verdict, log, appended, banner>>

(***************************************************************************)
(* bouncer.js:397-414: load the env file.  Every failure is only reported. *)
(***************************************************************************)
\* a variant of LoadEnv in which a failure other than a missing file is
\* handled like a credential error
LoadEnvFatal ==
  /\ pc = "loadEnv"
  /\ \E r \in DotenvResults :
       IF r.error = "EACCES"
         THEN \E ok \in BOOLEAN :
                /\ AppendFile([commit |-> <<"<", "a", "p", "i", "-", "k", "e", "y", "-", "e", "r", "r", "o", "r", ">">>, verdict |-> "ERROR",
                               reason |-> [prefix |-> "API Key Error", type |-> NONE,
                                           message |-> <<"C", "o", "u", "l", "d", " ", "n", "o", "t", " ", "l", "o", "a", "d", " ", "e", "n", "v", "i", "r", "o", "n", "m", "e", "n", "t", " ", "f", "i", "l", "e">>],
                               source |-> envFilePath, command |-> NONE, operation |-> NONE,
                               error |-> [type |-> NONE, message |-> <<>>, code |-> NONE,
                                          status |-> -1],
                               usage |-> [present |-> FALSE, inputTokens |-> -1,
                                          outputTokens |-> -1, totalTokens |-> -1,
                                          diffTokens |-> -1, truncated |-> FALSE,
                                          originalDiffTokens |-> -1]], ok)
                /\ pc' = "exited"
                /\ exitCode' = 1
                /\ trace' = trace \o << [op |-> "dotenv.config", ok |-> FALSE, result |-> <<>>, n |-> -1],
                                        [op |-> "appendFile", ok |-> ok, result |-> <<>>, n |-> -1] >>
                /\ UNCHANGED env
         ELSE /\ env' = IF r.error = NONE THEN dotenvPopulate(env, r.parsed) ELSE env
              /\ trace' = Append(trace, [op |-> "dotenv.config", ok |-> r.error = NONE,
                                         result |-> <<>>, n |-> -1])
              /\ pc' = "checkApiKey"
              /\ UNCHANGED <<log, appended, exitCode>>
  /\ UNCHANGED <<peer, argv, cliArgs, envFilePath, rulesFilePath, logFilePath, rawDiff,
                 tokenCount, truncatedDiff, diffInfo, commit, rules, prompt, res,
                 verdict, banner>>

LoadEnv ==
  /\ pc = "loadEnv"
  /\ \E r \in DotenvResults :
       /\ env' = IF r.error = NONE THEN dotenvPopulate(env, r.parsed) ELSE env
       /\ trace' = Append(trace, Call("dotenv.config", r.error = NONE, <<>>))
  /\ pc' = "checkApiKey"
  /\ UNCHANGED <<peer, argv, cliArgs, envFilePath, rulesFilePath, logFilePath, rawDiff,
                 tokenCount, truncatedDiff, diffInfo, commit, rules, prompt, res,
                 verdict, log, appended, banner, exitCode>>

(***************************************************************************)
(* bouncer.js:416-442: the credential check; <<>> when it passes, else the *)
(* message of the first failing check.                                     *)
(***************************************************************************)
\* a variant of apiKeyProblem without the length check
apiKeyProblemNoLength(e) ==
  IF "GEMINI_API_KEY" \notin DOMAIN e \/ e["GEMINI_API_KEY"] = <<>>
    THEN <<"M", "i", "s", "s", "i", "n", "g", " ", "G", "e", "m", "i", "n", "i", " ", "A", "P", "I", " ", "k", "e", "y">>
  ELSE IF trim(e["GEMINI_API_KEY"]) = <<>>
    THEN <<"E", "m", "p", "t", "y", " ", "G", "e", "m", "i", "n", "i", " ", "A", "P", "I", " ", "k", "e", "y">>
  ELSE <<>>

\* a variant of apiKeyProblem with the length check before the trim check
apiKeyProblemLengthFirst(e) ==
  IF "GEMINI_API_KEY" \notin DOMAIN e \/ e["GEMINI_API_KEY"] = <<>>
    THEN <<"M", "i", "s", "s", "i", "n", "g", " ", "G", "e", "m", "i", "n", "i", " ", "A", "P", "I", " ", "k", "e", "y">>
  ELSE IF Len(e["GEMINI_API_KEY"]) < MIN_KEY_LENGTH
    THEN <<"G", "e", "m", "i", "n", "i", " ", "A", "P", "I", " ", "k", "e", "y", " ", "a", "p", "p", "e", "a", "r", "s", " ", "t", "o", " ", "b", "e", " ", "i", "n", "v", "a", "l", "i", "d", " ", "(", "t", "o", "o", " ", "s", "h", "o", "r", "t", ")">>
  ELSE IF trim(e["GEMINI_API_KEY"]) = <<>>
    THEN <<"E", "m", "p", "t", "y", " ", "G", "e", "m", "i", "n", "i", " ", "A", "P", "I", " ", "k", "e", "y">>
  ELSE <<>>

apiKeyProblem(e) ==
  IF "GEMINI_API_KEY" \notin DOMAIN e \/ e["GEMINI_API_KEY"] = <<>>
    THEN <<"M", "i", "s", "s", "i", "n", "g", " ", "G", "e", "m", "i", "n", "i", " ", "A", "P", "I", " ", "k", "e", "y">>
  ELSE IF trim(e["GEMINI_API_KEY"]) = <<>>
    THEN <<"E", "m", "p", "t", "y", " ", "G", "e", "m", "i", "n", "i", " ", "A", "P", "I", " ", "k", "e", "y">>
  ELSE IF Len(e["GEMINI_API_KEY"]) < MIN_KEY_LENGTH
    THEN <<"G", "e", "m", "i", "n", "i", " ", "A", "P", "I", " ", "k", "e", "y", " ", "a", "p", "p", "e", "a", "r", "s", " ", "t", "o", " ", "b", "e", " ", "i", "n", "v", "a", "l", "i", "d", " ", "(", "t", "o", "o", " ", "s", "h", "o", "r", "t", ")">>
  ELSE <<>>

\* a variant of CheckApiKey whose record quotes the credential it rejects
CheckApiKeyQuoting ==
  /\ pc = "checkApiKey"
  /\ IF apiKeyProblem(env) # <<>>
       THEN \E ok \in BOOLEAN :
              /\ AppendFile(ApiKeyRecord(apiKeyProblem(env) \o <<":", " ">> \o
                                           (IF "GEMINI_API_KEY" \in DOMAIN env
                                              THEN env["GEMINI_API_KEY"] ELSE <<>>),
                                         envFilePath), ok)
              /\ Exit(1, <<Call("appendFile", ok, <<>>)>>)
       ELSE /\ pc' = "workTree"
            /\ UNCHANGED <<log, appended, trace, exitCode>>
  /\ UNCHANGED <<peer, argv, cliArgs, envFilePath, rulesFilePath, logFilePath, env, rawDiff,
                 tokenCount, truncatedDiff, diffInfo, commit, rules, prompt, res,
                 verdict, banner>>

\* bouncer.js:368-395, handleApiKeyError, reached from the credential check
CheckApiKey ==
  /\ pc = "checkApiKey"
  /\ IF apiKeyProblem(env) # <<>>
       THEN \E ok \in BOOLEAN :
              /\ AppendFile(ApiKeyRecord(apiKeyProblem(env), envFilePath), ok)
              /\ Exit(1, <<Call("appendFile", ok, <<>>)>>)
       ELSE /\ pc' = "workTree"
            /\ UNCHANGED <<log, appended, trace, exitCode>>
  /\ UNCHANGED <<peer, argv, cliArgs, envFilePath, rulesFilePath, logFilePath, env, rawDiff,
                 tokenCount, truncatedDiff, diffInfo, commit, rules, prompt, res,
                 verdict, banner>>

(***************************************************************************)
(* bouncer.js:606-676, handleGitCommandError: classify, write the record,  *)
(* exit 1 whatever the class.                                              *)
(***************************************************************************)
handleGitCommandError(command, error, before) ==
  \E ok \in BOOLEAN :
    /\ AppendFile(GitRecord(command, error), ok)
    /\ Exit(1, before \o <<Call("appendFile", ok, <<>>)>>)

WORK_TREE_COMMAND == "git rev-parse --is-inside-work-tree"

DIFF_COMMAND == "git diff --cached --unified=0"

DIFF_COMMAND_NAME == "git diff --cached"

HEAD_COMMAND == "git rev-parse --verify HEAD"

\* bouncer.js:678-691: the work-tree probe
WorkTreeProbe ==
  /\ pc = "workTree"
  /\ \/ /\ pc' = "stagedDiff"
        /\ trace' = Append(trace, Call(WORK_TREE_COMMAND, TRUE, <<>>))
        /\ UNCHANGED <<log, appended, exitCode>>
     \/ \E e \in GitErrors :
          handleGitCommandError(WORK_TREE_COMMAND, e, <<Call(WORK_TREE_COMMAND, FALSE, e.message)>>)
  /\ UNCHANGED <<peer, argv, cliArgs, envFilePath, rulesFilePath, logFilePath, env, rawDiff,
                 tokenCount, truncatedDiff, diffInfo, commit, rules, prompt, res,
                 verdict, banner>>

NoStagedChanges == GitError(NONE, <<"N", "o", " ", "s", "t", "a", "g", "e", "d", " ", "c", "h", "a", "n", "g", "e", "s", " ", "f", "o", "u", "n", "d">>)

\* bouncer.js:693-714: the staged diff
StagedDiff ==
  /\ pc = "stagedDiff"
  /\ IF EnvIs(env, "TEST_EMPTY_DIFF", TRUE_TEXT)
       THEN /\ rawDiff' = TEST_DIFF
            /\ pc' = "countTokens"
            /\ UNCHANGED <<log, appended, trace, exitCode>>
       ELSE \/ \E d \in StagedDiffs :
                 /\ rawDiff' = d
                 /\ IF isBlank(d)
                      THEN handleGitCommandError(DIFF_COMMAND_NAME, NoStagedChanges,
                                                 <<Call(DIFF_COMMAND, TRUE, <<>>)>>)
                      ELSE /\ pc' = "countTokens"
                           /\ trace' = Append(trace, Call(DIFF_COMMAND, TRUE, <<>>))
                           /\ UNCHANGED <<log, appended, exitCode>>
            \/ \E e \in GitErrors :
                 /\ handleGitCommandError(DIFF_COMMAND_NAME, e, <<Call(DIFF_COMMAND, FALSE, e.message)>>)
                 /\ UNCHANGED rawDiff
  /\ UNCHANGED <<peer, argv, cliArgs, envFilePath, rulesFilePath, logFilePath, env,
                 tokenCount, truncatedDiff, diffInfo, commit, rules, prompt, res,
                 verdict, banner>>

(***************************************************************************)
(* bouncer.js:541-563, getTokenCount.  An outcome of one call: the count   *)
(* call is skipped when TEST_SIMULATE_ERROR is 'token-counting'; a failure *)
(* goes to handleGeminiApiError with shouldExit false, which writes a      *)
(* record, and the count is then estimated from the length.                *)
(***************************************************************************)
NoApiError == ApiError(0, NONE, <<>>)

SimulatedCountError == ApiError(500, NONE, <<"S", "i", "m", "u", "l", "a", "t", "e", "d", " ", "t", "o", "k", "e", "n", " ", "c", "o", "u", "n", "t", "i", "n", "g", " ", "e", "r", "r", "o", "r">>)

CountOutcomes(e) ==
  IF EnvIs(e, "TEST_SIMULATE_ERROR", <<"t", "o", "k", "e", "n", "-", "c", "o", "u", "n", "t", "i", "n", "g">>)
    THEN { [called |-> FALSE, failed |-> TRUE, error |-> SimulatedCountError, n |-> 0] }
    ELSE { [called |-> TRUE, failed |-> FALSE, error |-> NoApiError, n |-> n] :
             n \in CountResponses }
         \cup { [called |-> TRUE, failed |-> TRUE, error |-> x, n |-> 0] :
                  x \in CountErrors }

\* the value getTokenCount returns for the text under outcome o
getTokenCount(text, o) ==
  IF o.failed THEN estimateTokens(length(text)) ELSE o.n

\* a variant of CountEffects that makes a failed count call a second time
CountEffectsRetry(o, ok) ==
  /\ IF o.failed
       THEN AppendFile(GeminiRecord("token counting", o.error, NoMetadata), ok)
       ELSE ok /\ UNCHANGED <<log, appended>>
  /\ trace' = trace
              \o (IF o.called
                    THEN <<CountCall(~o.failed, o.error.message, IF o.failed THEN -1 ELSE o.n)>>
                    ELSE <<>>)
              \o (IF o.called /\ o.failed
                    THEN <<CountCall(FALSE, o.error.message, -1)>>
                    ELSE <<>>)
              \o (IF o.failed THEN <<Call("appendFile", ok, <<>>)>> ELSE <<>>)

\* the calls and the log write of getTokenCount under outcome o
CountEffects(o, ok) ==
  /\ IF o.failed
       THEN AppendFile(GeminiRecord("token counting", o.error, NoMetadata), ok)
       ELSE ok /\ UNCHANGED <<log, appended>>
  /\ trace' = trace
              \o (IF o.called
                    THEN <<CountCall(~o.failed, o.error.message, IF o.failed THEN -1 ELSE o.n)>>
                    ELSE <<>>)
              \o (IF o.failed THEN <<Call("appendFile", ok, <<>>)>> ELSE <<>>)

\* a variant of withinLimit with a strict comparison
withinLimitStrict(n) == n < TOKEN_LIMIT_THRESHOLD

\* bouncer.js:571: the diff is within the token limit
withinLimit(n) == n <= TOKEN_LIMIT_THRESHOLD

\* bouncer.js:566-584: handlePotentiallyLargeDiff up to the second count
CountDiffTokens ==
  /\ pc = "countTokens"
  /\ \E o \in CountOutcomes(env), ok \in BOOLEAN :
       /\ CountEffects(o, ok)
       /\ LET n == getTokenCount(rawDiff, o) IN
          /\ tokenCount' = n
          /\ IF withinLimit(n)
               THEN /\ diffInfo' = [diff |-> [body |-> rawDiff, marker |-> NoMarker],
                                    tokenCount |-> n, originalTokenCount |-> -1,
                                    truncated |-> FALSE]
                    /\ pc' = "revParseHead"
                    /\ UNCHANGED truncatedDiff
               ELSE /\ truncatedDiff' =
                         With(safeCharLimit(length(rawDiff), n), LAMBDA limit :
                           substring0(rawDiff, limit))
                    /\ pc' = "countTruncatedTokens"
                    /\ UNCHANGED diffInfo
  /\ UNCHANGED <<peer, argv, cliArgs, envFilePath, rulesFilePath, logFilePath, env, rawDiff,
                 commit, rules, prompt, res, verdict, banner, exitCode>>

\* bouncer.js:586-598: the second count and the truncated payload
CountTruncatedTokens ==
  /\ pc = "countTruncatedTokens"
  /\ \E o \in CountOutcomes(env), ok \in BOOLEAN :
       /\ CountEffects(o, ok)
       /\ LET n == getTokenCount(truncatedDiff, o) IN
          diffInfo' = [diff |-> [body |-> truncatedDiff,
                                 marker |-> Marker(n, tokenCount, length(truncatedDiff),
                                                   length(rawDiff))],
                       tokenCount |-> n, originalTokenCount |-> tokenCount,
                       truncated |-> TRUE]
  /\ pc' = "revParseHead"
  /\ UNCHANGED <<peer, argv, cliArgs, envFilePath, rulesFilePath, logFilePath, env, rawDiff,
                 tokenCount, truncatedDiff, commit, rules, prompt, res, verdict,
                 banner, exitCode>>

\* what "git rev-parse --verify HEAD" prints
HeadOutputs == { <<"a", "1", "b", "2", "c", "3", "\n">> }

\* a variant of RevParseHead that handles a failing lookup like the failures
\* of the other git commands
RevParseHeadFatal ==
  /\ pc = "revParseHead"
  /\ \/ \E out \in HeadOutputs :
          /\ commit' = trim(out)
          /\ trace' = Append(trace, Call(HEAD_COMMAND, TRUE, out))
          /\ pc' = "readRules"
          /\ UNCHANGED <<log, appended, exitCode>>
     \/ /\ handleGitCommandError(HEAD_COMMAND, GitError(NONE, <<"f", "a", "t", "a", "l", ":", " ", "N", "e", "e", "d", "e", "d", " ", "a", " ", "s", "i", "n", "g", "l", "e", " ", "r", "e", "v", "i", "s", "i", "o", "n">>),
                                  <<Call(HEAD_COMMAND, FALSE, <<>>)>>)
        /\ UNCHANGED commit
  /\ UNCHANGED <<peer, argv, cliArgs, envFilePath, rulesFilePath, logFilePath, env, rawDiff,
                 tokenCount, truncatedDiff, diffInfo, rules, prompt, res, verdict,
                 banner>>

\* a variant of RevParseHead that makes a failed lookup a second time
RevParseHeadRetry ==
  /\ pc = "revParseHead"
  /\ \/ \E out \in HeadOutputs :
          /\ commit' = trim(out)
          /\ trace' = Append(trace, Call(HEAD_COMMAND, TRUE, out))
          /\ pc' = "readRules"
     \/ /\ trace' = Append(trace, Call(HEAD_COMMAND, FALSE, <<>>))
        /\ IF \A i \in 1..Len(trace) : trace[i].op # HEAD_COMMAND
             THEN pc' = "revParseHead" /\ UNCHANGED commit
             ELSE pc' = "readRules" /\ commit' = NEW_COMMIT
  /\ UNCHANGED <<peer, argv, cliArgs, envFilePath, rulesFilePath, logFilePath, env, rawDiff,
                 tokenCount, truncatedDiff, diffInfo, rules, prompt, res, verdict,
                 log, appended, banner, exitCode>>

\* bouncer.js:719-727: the revision id, "<new>" when the lookup fails
RevParseHead ==
  /\ pc = "revParseHead"
  /\ \/ \E out \in HeadOutputs :
          /\ commit' = trim(out)
          /\ trace' = Append(trace, Call(HEAD_COMMAND, TRUE, out))
     \/ /\ commit' = NEW_COMMIT
        /\ trace' = Append(trace, Call(HEAD_COMMAND, FALSE, <<>>))
  /\ pc' = "readRules"
  /\ UNCHANGED <<peer, argv, cliArgs, envFilePath, rulesFilePath, logFilePath, env, rawDiff,
                 tokenCount, truncatedDiff, diffInfo, rules, prompt, res, verdict,
                 log, appended, banner, exitCode>>

\* the rule texts read, and the messages of the read errors
RulesTexts == { <<"N", "o", " ", "s", "e", "c", "r", "e", "t", "s", ".">> }

ReadErrors == { <<"E", "N", "O", "E", "N", "T", ":", " ", "n", "o", " ", "s", "u", "c", "h", " ", "f", "i", "l", "e", " ", "o", "r", " ", "d", "i", "r", "e", "c", "t", "o", "r", "y">>, <<"E", "A", "C", "C", "E", "S", ":", " ", "p", "e", "r", "m", "i", "s", "s", "i", "o", "n", " ", "d", "e", "n", "i", "e", "d">> }

\* bouncer.js:735-764, handleRulesFileError
handleRulesFileError(errorMessage, originalMessage, before) ==
  \E ok \in BOOLEAN :
    /\ AppendFile(RulesRecord(errorMessage, originalMessage, rulesFilePath), ok)
    /\ Exit(1, before \o <<Call("appendFile", ok, <<>>)>>)

\* bouncer.js:766-794: read the rules and build the prompt
ReadRules ==
  /\ pc = "readRules"
  /\ \/ \E text \in RulesTexts :
          /\ rules' = text
          /\ prompt' = [rules |-> text, commit |-> commit, diff |-> diffInfo.diff]
          /\ trace' = Append(trace, Call("readFile", TRUE, text))
          /\ pc' = "generateContent"
          /\ UNCHANGED <<log, appended, exitCode>>
     \/ \E m \in ReadErrors :
          /\ handleRulesFileError(<<"C", "o", "u", "l", "d", " ", "n", "o", "t", " ", "r", "e", "a", "d", " ", "r", "u", "l", "e", "s", " ", "f", "i", "l", "e">>, m,
                                  <<Call("readFile", FALSE, m)>>)
          /\ UNCHANGED <<rules, prompt>>
  /\ UNCHANGED <<peer, argv, cliArgs, envFilePath, rulesFilePath, logFilePath, env, rawDiff,
                 tokenCount, truncatedDiff, diffInfo, commit, res, verdict, banner>>

\* bouncer.js:800-820: the error thrown in place of the generation call
SimulatedErrors ==
  { <<<<"a", "u", "t", "h", "-", "4", "0", "1">>, ApiError(401, NONE, <<"S", "i", "m", "u", "l", "a", "t", "e", "d", " ", "a", "u", "t", "h", "e", "n", "t", "i", "c", "a", "t", "i", "o", "n", " ", "e", "r", "r", "o", "r">>)>>,
    <<<<"r", "a", "t", "e", "-", "l", "i", "m", "i", "t", "-", "4", "2", "9">>, ApiError(429, NONE, <<"S", "i", "m", "u", "l", "a", "t", "e", "d", " ", "r", "a", "t", "e", " ", "l", "i", "m", "i", "t", " ", "e", "x", "c", "e", "e", "d", "e", "d">>)>>,
    <<<<"s", "e", "r", "v", "e", "r", "-", "5", "0", "0">>, ApiError(500, NONE, <<"S", "i", "m", "u", "l", "a", "t", "e", "d", " ", "s", "e", "r", "v", "e", "r", " ", "e", "r", "r", "o", "r">>)>>,
    <<<<"n", "e", "t", "w", "o", "r", "k", "-", "e", "n", "o", "t", "f", "o", "u", "n", "d">>, ApiError(0, "ENOTFOUND", <<"g", "e", "t", "a", "d", "d", "r", "i", "n", "f", "o", " ", "E", "N", "O", "T", "F", "O", "U", "N", "D", " ", "a", "p", "i", ".", "g", "e", "m", "i", "n", "i", ".", "c", "o", "m">>)>>,
    <<<<"t", "i", "m", "e", "o", "u", "t", "-", "e", "t", "i", "m", "e", "d", "o", "u", "t">>, ApiError(0, "ETIMEDOUT", <<"C", "o", "n", "n", "e", "c", "t", "i", "o", "n", " ", "t", "i", "m", "e", "d", " ", "o", "u", "t">>)>> }

SimulatedFor(e) ==
  { s \in SimulatedErrors : EnvIs(e, "TEST_SIMULATE_ERROR", s[1]) }

\* bouncer.js:457-538, handleGeminiApiError with shouldExit true, reached
\* from the catch of the generation call (bouncer.js:901-911)
handleGenerationError(error, before) ==
  \E ok \in BOOLEAN :
    /\ AppendFile(GeminiRecord("content generation", error,
                               [present |-> TRUE, commit |-> commit,
                                usage |-> errorUsageOf(diffInfo)]), ok)
    /\ Exit(1, before \o <<Call("appendFile", ok, <<>>)>>)

\* bouncer.js:797-829: the generation call
GenerateContent ==
  /\ pc = "generateContent"
  /\ IF SimulatedFor(env) # {}
       THEN /\ \E s \in SimulatedFor(env) : handleGenerationError(s[2], <<>>)
            /\ UNCHANGED res
       ELSE \/ \E r \in Responses :
                 /\ res' = r
                 /\ trace' = Append(trace, Call("generateContent", TRUE, r.text))
                 /\ pc' = "logVerdict"
                 /\ UNCHANGED <<log, appended, exitCode>>
            \/ \E x \in GeminiErrors :
                 /\ handleGenerationError(x, <<Call("generateContent", FALSE, x.message)>>)
                 /\ UNCHANGED res
  /\ UNCHANGED <<peer, argv, cliArgs, envFilePath, rulesFilePath, logFilePath, env, rawDiff,
                 tokenCount, truncatedDiff, diffInfo, commit, rules, prompt, verdict,
                 banner>>

\* a variant of LogVerdict that hands no record to the log
LogVerdictUnlogged ==
  /\ pc = "logVerdict"
  /\ LET v == interpret(env, res.text) IN
     /\ verdict' = v[1]
     /\ res' = [res EXCEPT !.text = v[2]]
  /\ pc' = "announce"
  /\ UNCHANGED <<peer, argv, cliArgs, envFilePath, rulesFilePath, logFilePath, env, rawDiff,
                 tokenCount, truncatedDiff, diffInfo, commit, rules, prompt, banner,
                 exitCode, log, appended, trace>>

\* bouncer.js:831-872: the verdict, the usage and the record of the verdict
LogVerdict ==
  /\ pc = "logVerdict"
  /\ LET v == interpret(env, res.text) IN
     /\ verdict' = v[1]
     /\ res' = [res EXCEPT !.text = v[2]]
     /\ \E ok \in BOOLEAN :
          /\ AppendFile(VerdictRecord(commit, v[1], v[2],
                                      tokenUsageOf(res.usageMetadata, diffInfo)), ok)
          /\ trace' = Append(trace, Call("appendFile", ok, <<>>))
  /\ pc' = "announce"
  /\ UNCHANGED <<peer, argv, cliArgs, envFilePath, rulesFilePath, logFilePath, env, rawDiff,
                 tokenCount, truncatedDiff, diffInfo, commit, rules, prompt, banner,
                 exitCode>>

\* a variant of exitCodeOf with process.exit(1) after both banners
exitCodeOfAlwaysOne(v) == 1

\* a variant of exitCodeOf that forgets process.exit(1) on FAIL
exitCodeOfAlwaysZero(v) == 0

\* bouncer.js:875-899: process.exit(1) on FAIL; on PASS the script ends and
\* the process exits with code 0
exitCodeOf(v) == IF v = "FAIL" THEN 1 ELSE 0

\* a variant of Announce that runs before the record of the verdict is
\* handed to the log
AnnounceBeforeLog ==
  /\ pc = "logVerdict"
  /\ verdict' = interpret(env, res.text)[1]
  /\ banner' = IF verdict' = "FAIL" THEN "Bouncer blocked this commit" ELSE "Bouncer PASS"
  /\ Exit(exitCodeOf(verdict'), <<Call("banner", TRUE, <<>>)>>)
  /\ UNCHANGED <<peer, argv, cliArgs, envFilePath, rulesFilePath, logFilePath, env, rawDiff,
                 tokenCount, truncatedDiff, diffInfo, commit, rules, prompt, res,
                 log, appended>>

\* bouncer.js:874-899: the banner and the exit
Announce ==
  /\ pc = "announce"
  /\ banner' = IF verdict = "FAIL" THEN "Bouncer blocked this commit" ELSE "Bouncer PASS"
  /\ Exit(exitCodeOf(verdict), <<Call("banner", TRUE, <<>>)>>)
  /\ UNCHANGED <<peer, argv, cliArgs, envFilePath, rulesFilePath, logFilePath, env, rawDiff,
                 tokenCount, truncatedDiff, diffInfo, commit, rules, prompt, res,
                 verdict, log, appended>>

Next ==
  \/ ResolveConfig
  \/ LoadEnv
  \/ CheckApiKey
  \/ WorkTreeProbe
  \/ StagedDiff
  \/ CountDiffTokens
  \/ CountTruncatedTokens
  \/ RevParseHead
  \/ ReadRules
  \/ GenerateContent
  \/ LogVerdict
  \/ Announce

Spec == Init /\ [][Next]_vars

\* the script is sequential and every call it awaits returns or throws, so
\* a run that can take a step takes one
\* the environments of these runs: no credential and no switch, or a good
\* credential with each setting of the test switches
FairEnvs ==
  { <<>> } \cup
  { dotenvPopulate([n \in {"GEMINI_API_KEY"} |-> Repeat("k", LongKeyLen)], t) : t \in TestEnvs }

InitFair ==
  /\ pc = "parseArguments"
  /\ argv = <<>>
  /\ env \in FairEnvs
  /\ cliArgs = NoArgs
  /\ envFilePath = <<>>
  /\ rulesFilePath = <<>>
  /\ logFilePath = <<>>
  /\ rawDiff = <<>>
  /\ tokenCount = -1
  /\ truncatedDiff = <<>>
  /\ diffInfo = NoDiffInfo
  /\ commit = <<>>
  /\ rules = <<>>
  /\ prompt = NoPrompt
  /\ res = NoResponse
  /\ verdict = NONE
  /\ log = PriorLog
  /\ appended = <<>>
  /\ trace = <<>>
  /\ banner = NONE
  /\ exitCode = -1
  /\ peer = NoPeer

SpecFair == InitFair /\ [][Next]_vars /\ WF_vars(Next)

(***************************************************************************)
(* The start of the script alone, bouncer.js:347-442, for more argument    *)
(* vectors: the configuration, the load of the env file and the credential *)
(* check.                                                                  *)
(***************************************************************************)
\* the environments tried with it: a credential or none, no test switches
ConfigEnvs == { <<>> } \cup { [n \in {"GEMINI_API_KEY"} |-> v] : v \in KeyValues }

InitConfig ==
  /\ pc = "parseArguments"
  /\ argv \in ConfigArgvs
  /\ env \in ConfigEnvs
  /\ cliArgs = NoArgs
  /\ envFilePath = <<>>
  /\ rulesFilePath = <<>>
  /\ logFilePath = <<>>
  /\ rawDiff = <<>>
  /\ tokenCount = -1
  /\ truncatedDiff = <<>>
  /\ diffInfo = NoDiffInfo
  /\ commit = <<>>
  /\ rules = <<>>
  /\ prompt = NoPrompt
  /\ res = NoResponse
  /\ verdict = NONE
  /\ log = PriorLog
  /\ appended = <<>>
  /\ trace = <<>>
  /\ banner = NONE
  /\ exitCode = -1
  /\ peer = NoPeer

NextConfig ==
  \/ ResolveConfig
  \/ LoadEnv
  \/ CheckApiKey

SpecConfig == InitConfig /\ [][NextConfig]_vars

(***************************************************************************)
(* Two invocations against one log file.  The invocations share nothing    *)
(* but the file, and neither reads it, so the second one is kept as what   *)
(* it does to the file: the records it hands to fs.appendFile, one atomic  *)
(* append each, and the code it exits with.                                *)
(***************************************************************************)
\* the records of a run and its exit code, for the runs of the second
\* invocation: ended in the path resolution, refused credential, nothing
\* staged, a failed first count before a PASS, a FAIL
PeerRuns ==
  LET usage == [present |-> TRUE, inputTokens |-> 12, outputTokens |-> 3,
                totalTokens |-> 15, diffTokens |-> 12, truncated |-> FALSE,
                originalDiffTokens |-> -1]
  IN
  { [records |-> <<>>, code |-> 1],
    [records |-> << ApiKeyRecord(apiKeyProblem(<<>>), Cwd \o <<"/">> \o ENV_FILE) >>, code |-> 1],
    [records |-> << GitRecord(DIFF_COMMAND_NAME, NoStagedChanges) >>, code |-> 1],
    [records |-> << GeminiRecord("token counting", ApiError(429, NONE, <<"R", "a", "t", "e", " ", "l", "i", "m", "i", "t", " ", "e", "x", "c", "e", "e", "d", "e", "d">>), NoMetadata),
                    VerdictRecord(NEW_COMMIT, "PASS", PASS_TEXT, usage) >>, code |-> 0],
    [records |-> << VerdictRecord(<<"0", "f", "9", "e", "8", "d">>, "FAIL", <<"F", "A", "I", "L", ":", " ", "s", "e", "c", "r", "e", "t">>, usage) >>, code |-> 1] }

\* the environments of the first invocation: no credential, or a good one
ConcurrentEnvs == { <<>>, [n \in {"GEMINI_API_KEY"} |-> Repeat("k", LongKeyLen)] }

InitConcurrent ==
  /\ pc = "parseArguments"
  /\ argv = <<>>
  /\ env \in ConcurrentEnvs
  /\ cliArgs = NoArgs
  /\ envFilePath = <<>>
  /\ rulesFilePath = <<>>
  /\ logFilePath = <<>>
  /\ rawDiff = <<>>
  /\ tokenCount = -1
  /\ truncatedDiff = <<>>
  /\ diffInfo = NoDiffInfo
  /\ commit = <<>>
  /\ rules = <<>>
  /\ prompt = NoPrompt
  /\ res = NoResponse
  /\ verdict = NONE
  /\ log = PriorLog
  /\ appended = <<>>
  /\ trace = <<>>
  /\ banner = NONE
  /\ exitCode = -1
  /\ \E r \in PeerRuns :
       peer = [records |-> r.records, code |-> r.code, handed |-> 0, at |-> <<>>,
               exitCode |-> -1]

\* await fs.appendFile(logFilePath, record) of the second invocation: one
\* atomic append; at holds the line of the file each record went to, 0 for
\* a record whose write failed
PeerAppend ==
  /\ peer.handed < Len(peer.records)
  /\ \E ok \in BOOLEAN :
       /\ log' = IF ok THEN Append(log, peer.records[peer.handed + 1]) ELSE log
       /\ peer' = [peer EXCEPT !.handed = @ + 1,
                               !.at = Append(@, IF ok THEN Len(log) + 1 ELSE 0)]
  /\ UNCHANGED <<pc, argv, cliArgs, envFilePath, rulesFilePath, logFilePath, env, rawDiff,
                 tokenCount, truncatedDiff, diffInfo, commit, rules, prompt, res,
                 verdict, appended, trace, banner, exitCode>>

\* process.exit of the second invocation, after its last record
PeerExit ==
  /\ peer.code # -1
  /\ peer.handed = Len(peer.records)
  /\ peer.exitCode = -1
  /\ peer' = [peer EXCEPT !.exitCode = peer.code]
  /\ UNCHANGED <<pc, argv, cliArgs, envFilePath, rulesFilePath, logFilePath, env, rawDiff,
                 tokenCount, truncatedDiff, diffInfo, commit, rules, prompt, res,
                 verdict, log, appended, trace, banner, exitCode>>

NextConcurrent ==
  \/ Next
  \/ PeerAppend
  \/ PeerExit

SpecConcurrent == InitConcurrent /\ [][NextConcurrent]_vars

(***************************************************************************)
(* Properties.  What a run did is read from the trace of its calls.        *)
(***************************************************************************)
CallsOf(op) == {i \in 1..Len(trace) : trace[i].op = op}

Made(op) == CallsOf(op) # {}

MadeOk(op) == \E i \in CallsOf(op) : trace[i].ok

MadeFailing(op) == \E i \in CallsOf(op) : ~trace[i].ok

Exited == pc = "exited"

\* the remote calls of the run
RemoteCalls == CallsOf("countTokens") \cup CallsOf("generateContent")

\* the text the generation call returned
ServiceText == trace[CHOOSE i \in CallsOf("generateContent") : TRUE].result

\* the credential check has been made: the env file was loaded and the run
\* is past the check
KeyChecked == Made("dotenv.config") /\ pc # "checkApiKey"

KeyIsSet == "GEMINI_API_KEY" \in DOMAIN env

\* the credential is set, not empty after trimming, and long enough
CredentialPasses ==
  /\ KeyIsSet
  /\ \E i \in 1..Len(env["GEMINI_API_KEY"]) : env["GEMINI_API_KEY"][i] \notin WhiteSpace
  /\ Len(env["GEMINI_API_KEY"]) >= 20

ForcePass == EnvIs(env, "TEST_FORCE_PASS", TRUE_TEXT)

ForceFail == EnvIs(env, "TEST_FORCE_FAIL", TRUE_TEXT)

TestDiff == EnvIs(env, "TEST_EMPTY_DIFF", TRUE_TEXT)

\* the text contains the word, letter case ignored
ContainsAnyCase(text, word) ==
  \E i \in 1..(Len(text) - Len(word) + 1) :
    toLowerCase(SubSeq(text, i, i + Len(word) - 1)) = toLowerCase(word)

BeginsAnyCase(text, word) ==
  /\ Len(text) >= Len(word)
  /\ toLowerCase(SubSeq(text, 1, Len(word))) = toLowerCase(word)

\* the run ended without a verdict: in an error handler or by an exception
EndedInError == Exited /\ verdict = NONE

\* the last record handed to fs.appendFile
LastAppended == appended[Len(appended)]

\* C1 as stated: the exit code is 0 or 1; it is 0 only if the credential
\* check passed, the work-tree probe and the staged-diff probe succeeded,
\* the rules were read, the generation call returned, and the verdict
\* derived from the response is PASS; FAIL and fatal errors give 1.
C1_Original ==
  /\ (Exited <=> exitCode \in {0, 1})
  /\ (exitCode = 0 =>
        /\ CredentialPasses
        /\ MadeOk(WORK_TREE_COMMAND)
        /\ MadeOk(DIFF_COMMAND)
        /\ MadeOk("readFile")
        /\ MadeOk("generateContent")
        /\ verdict = "PASS"
        /\ ContainsAnyCase(ServiceText, PASS_TEXT))
  /\ (Exited /\ (verdict = "FAIL" \/ EndedInError) => exitCode = 1)

\* C1 as amended: as C1, except that with TEST_EMPTY_DIFF 'true' the
\* staged-diff probe is replaced by the built-in test diff, and with
\* TEST_FORCE_PASS 'true' the verdict PASS is forced whatever the response.
C1_ExitCode ==
  /\ (Exited <=> exitCode \in {0, 1})
  /\ (~Exited => exitCode = -1)
  /\ (exitCode = 0 =>
        /\ CredentialPasses
        /\ MadeOk(WORK_TREE_COMMAND)
        /\ (MadeOk(DIFF_COMMAND) \/ (TestDiff /\ rawDiff = TEST_DIFF))
        /\ MadeOk("readFile")
        /\ MadeOk("generateContent")
        /\ verdict = "PASS"
        /\ (ContainsAnyCase(ServiceText, PASS_TEXT) \/ ForcePass))
  /\ (Exited /\ (verdict = "FAIL" \/ EndedInError) => exitCode = 1)

\* a run that passed every stage, without test switches, and exited 0
C1_Witness ==
  /\ exitCode = 0
  /\ MadeOk(DIFF_COMMAND)
  /\ ~ForcePass
  /\ verdict = "PASS"

\* C2 as stated: the verdict is PASS exactly when the response text of the
\* generation call contains PASS in any letter case.
C2_Original ==
  verdict # NONE => (verdict = "PASS" <=> ContainsAnyCase(ServiceText, PASS_TEXT))

\* C2 as amended: when neither TEST_FORCE_PASS nor TEST_FORCE_FAIL is
\* 'true', the verdict is PASS exactly when the response text contains PASS
\* in any letter case; TEST_FORCE_PASS forces PASS, and otherwise
\* TEST_FORCE_FAIL forces FAIL.
C2_Verdict ==
  verdict # NONE =>
    /\ verdict \in {"PASS", "FAIL"}
    /\ IF ForcePass THEN verdict = "PASS"
       ELSE IF ForceFail THEN verdict = "FAIL"
       ELSE (verdict = "PASS" <=> ContainsAnyCase(ServiceText, PASS_TEXT))

\* a lower-case response was given the verdict PASS, with no test switch
C2_Witness ==
  /\ verdict = "PASS"
  /\ ~ForcePass /\ ~ForceFail
  /\ MadeOk("generateContent")
  /\ ServiceText = <<"p", "a", "s", "s", " ", "-", " ", "o", "k">>

\* a response with both PASS and FAIL language, or one that begins with
\* neither word
Ambiguous(text) ==
  \/ (ContainsAnyCase(text, PASS_TEXT) /\ ContainsAnyCase(text, <<"F", "A", "I", "L">>))
  \/ ~(BeginsAnyCase(text, PASS_TEXT) \/ BeginsAnyCase(text, <<"F", "A", "I", "L">>))

\* C3: an ambiguous response yields the verdict FAIL and the exit code 1
\* (stated for the runs without a forced verdict).
C3_AmbiguousFails ==
  (verdict # NONE /\ ~ForcePass /\ ~ForceFail /\ Ambiguous(ServiceText)) =>
    /\ verdict = "FAIL"
    /\ (Exited => exitCode = 1)

\* C4: the payload returned by handlePotentiallyLargeDiff has a token count
\* of at most 800000.
C4_PayloadWithinCeiling ==
  diffInfo # NoDiffInfo => diffInfo.tokenCount <= 800000

\* the records of failed count calls handed to fs.appendFile
CountFailureRecords ==
  {i \in 1..Len(appended) : appended[i].operation = "token counting"}

\* C5: if the first token count, measured or estimated, is at most 800000,
\* the payload is the diff unchanged, with truncated false and no
\* originalTokenCount, and there is no second count.
C5_Untruncated ==
  (tokenCount # -1 /\ tokenCount <= 800000) =>
    /\ pc # "countTruncatedTokens"
    /\ diffInfo.diff = [body |-> rawDiff, marker |-> NoMarker]
    /\ diffInfo.tokenCount = tokenCount
    /\ diffInfo.truncated = FALSE
    /\ diffInfo.originalTokenCount = -1
    /\ truncatedDiff = <<>>
    /\ Cardinality(CallsOf("countTokens")) <= 1
    /\ Cardinality(CountFailureRecords) <= 1

\* a staged diff counted at exactly 800000 tokens went on untruncated
C5_Witness ==
  /\ tokenCount = 800000
  /\ pc = "revParseHead"
  /\ MadeOk(DIFF_COMMAND)
  /\ diffInfo.diff.body = rawDiff

\* C6: if the rules file cannot be read, the run hands an ERROR record with
\* commit "<rules-file-error>" and source the resolved rules path to the
\* log, exits with code 1 and never makes the generation call; no rule text
\* is substituted.
C6_RulesFileError ==
  MadeFailing("readFile") =>
    /\ Exited /\ exitCode = 1
    /\ appended # <<>>
    /\ LastAppended.commit = RULES_FILE_ERROR
    /\ LastAppended.verdict = "ERROR"
    /\ LastAppended.source = rulesFilePath
    /\ rulesFilePath # <<>>
    /\ trace[Len(trace)] = Call("appendFile", trace[Len(trace)].ok, <<>>)
    /\ ~Made("generateContent")
    /\ rules = <<>> /\ prompt = NoPrompt
    /\ verdict = NONE

\* the read of a rules file given on the command line failed
C6_Witness ==
  /\ MadeFailing("readFile")
  /\ Exited
  /\ rulesFilePath = <<"/", "w", "/", "r", ".", "m", "d">>
  /\ appended # <<>>

\* the calls a run may have made when the credential check fails
BeforeKeyCheck == {"dotenv.config", "appendFile"}

\* C7: when the credential check fails, the run hands one ERROR record with
\* commit "<api-key-error>" and a reason with "API Key Error" to the log,
\* exits with code 1, and makes no git query, rules read or remote call.
C7_ApiKeyError ==
  (KeyChecked /\ ~CredentialPasses) =>
    /\ Exited /\ exitCode = 1
    /\ Len(appended) = 1
    /\ appended[1].commit = API_KEY_ERROR
    /\ appended[1].verdict = "ERROR"
    /\ appended[1].reason.prefix = "API Key Error"
    /\ Cardinality(CallsOf("appendFile")) = 1
    /\ \A i \in 1..Len(trace) : trace[i].op \in BeforeKeyCheck
    /\ rawDiff = <<>> /\ rules = <<>> /\ commit = <<>>

\* a credential one character short of the minimum was refused
C7_Witness ==
  /\ KeyChecked
  /\ KeyIsSet
  /\ Len(env["GEMINI_API_KEY"]) = 19
  /\ Exited
  /\ Len(appended) = 1

\* the kind the claim gives to a credential: Missing when unset or the
\* empty string, Empty when only white space, too short when under 20
ExpectedKind ==
  IF ~KeyIsSet \/ env["GEMINI_API_KEY"] = <<>>
    THEN <<"M", "i", "s", "s", "i", "n", "g", " ", "G", "e", "m", "i", "n", "i", " ", "A", "P", "I", " ", "k", "e", "y">>
  ELSE IF \A i \in 1..Len(env["GEMINI_API_KEY"]) : env["GEMINI_API_KEY"][i] \in WhiteSpace
    THEN <<"E", "m", "p", "t", "y", " ", "G", "e", "m", "i", "n", "i", " ", "A", "P", "I", " ", "k", "e", "y">>
  ELSE IF Len(env["GEMINI_API_KEY"]) < 20
    THEN <<"G", "e", "m", "i", "n", "i", " ", "A", "P", "I", " ", "k", "e", "y", " ", "a", "p", "p", "e", "a", "r", "s", " ", "t", "o", " ", "b", "e", " ", "i", "n", "v", "a", "l", "i", "d", " ", "(", "t", "o", "o", " ", "s", "h", "o", "r", "t", ")">>
  ELSE <<>>

ApiKeyRecords == {i \in 1..Len(appended) : appended[i].commit = API_KEY_ERROR}

\* C8: the checks are applied in the order missing, empty after trim, too
\* short, and the first failing one gives the reported kind; a credential
\* passes exactly when it is set, not blank and at least 20 long, and a
\* passing credential produces no API-key record.
C8_CheckOrder ==
  KeyChecked =>
    /\ (ExpectedKind = <<>> <=> CredentialPasses)
    /\ (ExpectedKind # <<>> =>
          /\ Exited
          /\ ApiKeyRecords = {1}
          /\ appended[1].reason.message = ExpectedKind)
    /\ (ExpectedKind = <<>> => ApiKeyRecords = {})
    /\ (CredentialPasses <=> ~(Exited /\ ApiKeyRecords # {}))

\* a blank credential shorter than the minimum was reported as Empty
C8_Witness ==
  /\ KeyChecked
  /\ KeyIsSet
  /\ env["GEMINI_API_KEY"] = << " " >>
  /\ Len(appended) = 1
  /\ appended[1].reason.message = <<"E", "m", "p", "t", "y", " ", "G", "e", "m", "i", "n", "i", " ", "A", "P", "I", " ", "k", "e", "y">>

\* the errors git gives when the directory is not inside a work tree
NotInWorkTree ==
  { e \in GitErrors : e.code = NONE /\ ContainsAnyCase(e.message, <<"n", "o", "t", " ", "a", " ", "g", "i", "t", " ", "r", "e", "p", "o", "s", "i", "t", "o", "r", "y">>) }

WorkTreeFailedOutside ==
  \E i \in CallsOf(WORK_TREE_COMMAND) :
    ~trace[i].ok /\ \E e \in NotInWorkTree : trace[i].result = e.message

\* C9: when the work-tree probe fails because the directory is not inside
\* a work tree, the run hands an ERROR record with commit
\* "<git-command-error>", a reason with "Git Command Error" and error type
\* "Repository" to the log, exits with code 1 and makes no remote call.
C9_NotARepository ==
  WorkTreeFailedOutside =>
    /\ Exited /\ exitCode = 1
    /\ Len(appended) = 1
    /\ appended[1].commit = GIT_COMMAND_ERROR
    /\ appended[1].verdict = "ERROR"
    /\ appended[1].reason.prefix = "Git Command Error"
    /\ appended[1].reason.type = "Repository"
    /\ appended[1].error.type = "Repository"
    /\ appended[1].command = WORK_TREE_COMMAND
    /\ RemoteCalls = {}

\* the probe failed with git's message in its older capitalised form
C9_Witness ==
  /\ WorkTreeFailedOutside
  /\ \E i \in CallsOf(WORK_TREE_COMMAND) : trace[i].result = <<"f", "a", "t", "a", "l", ":", " ", "N", "o", "t", " ", "a", " ", "g", "i", "t", " ", "r", "e", "p", "o", "s", "i", "t", "o", "r", "y">>
  /\ Exited
  /\ Len(appended) = 1

\* the staged diff was retrieved and is empty or only white space
StagedDiffBlank ==
  /\ MadeOk(DIFF_COMMAND)
  /\ \A i \in 1..Len(rawDiff) : rawDiff[i].c \in {" ", "\t", "\n"}

\* C10: when the staged diff is empty or only white space, the run is
\* classified "No Changes", hands exactly one ERROR record with commit
\* "<git-command-error>" to the log, exits with code 1, and never calls the
\* token counter or the generation service.
C10_NoChanges ==
  StagedDiffBlank =>
    /\ Exited /\ exitCode = 1
    /\ Len(appended) = 1
    /\ appended[1].commit = GIT_COMMAND_ERROR
    /\ appended[1].verdict = "ERROR"
    /\ appended[1].error.type = "No Changes"
    /\ RemoteCalls = {}
    /\ tokenCount = -1
    /\ diffInfo = NoDiffInfo

\* a staged diff of white space only ended the run
C10_Witness ==
  /\ StagedDiffBlank
  /\ rawDiff # <<>>
  /\ Exited
  /\ Len(appended) = 1

\* the number of records handed to fs.appendFile by the first i calls
AppendsUpTo(i) == Cardinality({j \in 1..i : trace[j].op = "appendFile"})

\* the record of a verdict or of a failed generation call
ClosingRecord(r) ==
  r.verdict \in {"PASS", "FAIL"} \/ r.operation = "content generation"

\* C11: a failing revision lookup neither ends the run nor hands a record to
\* the log: the revision id becomes "<new>", the next call is the read of
\* the rules file, and the record of the verdict or of the failed generation
\* call has commit "<new>".
C11_NewCommit ==
  \A i \in CallsOf(HEAD_COMMAND) :
    ~trace[i].ok =>
      /\ commit = <<"<", "n", "e", "w", ">">>
      /\ Len(appended) = AppendsUpTo(Len(trace))
      /\ (Len(trace) = i =>
            /\ pc = "readRules"
            /\ exitCode = -1
            /\ Len(appended) = AppendsUpTo(i - 1))
      /\ (Len(trace) > i => trace[i + 1].op = "readFile")
      /\ \A k \in 1..Len(appended) :
           ClosingRecord(appended[k]) => appended[k].commit = <<"<", "n", "e", "w", ">">>
      /\ (Exited /\ MadeOk("readFile") =>
            /\ appended # <<>>
            /\ ClosingRecord(LastAppended)
            /\ LastAppended.commit = <<"<", "n", "e", "w", ">">>)

\* a run whose revision lookup failed ended with a FAIL record for "<new>"
C11_Witness ==
  /\ Exited
  /\ MadeFailing(HEAD_COMMAND)
  /\ verdict = "FAIL"
  /\ LastAppended.verdict = "FAIL"
  /\ LastAppended.commit = <<"<", "n", "e", "w", ">">>

\* the records handleGeminiApiError handed to fs.appendFile
GeminiRecords == {k \in 1..Len(appended) : appended[k].operation # NONE}

\* the category of an error with the status s
StatusCategory(s) ==
  IF s = 401 \/ s = 403 THEN "Authentication"
  ELSE IF s = 429 THEN "Rate Limit"
  ELSE IF s >= 500 THEN "Server"
  ELSE "API (" \o ToString(s) \o ")"

\* C12: handleGeminiApiError classifies an error that has a status by the
\* status alone (401 or 403 Authentication, 429 Rate Limit, 500 and above
\* Server, any other API (<status>)), whatever its code and message; an
\* error without a status with code ENOTFOUND or ECONNREFUSED is Network,
\* and one with code ETIMEDOUT is Timeout.
C12_Precedence ==
  \A k \in GeminiRecords :
    LET e == appended[k].error IN
    /\ (e.status # -1 => e.type = StatusCategory(e.status))
    /\ (e.status = -1 /\ e.code \in {"ENOTFOUND", "ECONNREFUSED"} => e.type = "Network")
    /\ (e.status = -1 /\ e.code = "ETIMEDOUT" => e.type = "Timeout")

\* a generation error with status 404, code ETIMEDOUT and the message
\* "quota" was classified API (404)
C12_Witness ==
  /\ Exited
  /\ \E i \in CallsOf("generateContent") :
       /\ ~trace[i].ok
       /\ trace[i].result = <<"q", "u", "o", "t", "a">>
  /\ LastAppended.error.status = 404
  /\ LastAppended.error.code = "ETIMEDOUT"
  /\ LastAppended.error.type = "API (404)"

\* C13: an error of a remote call without a status and without a network or
\* timeout code is classified Quota when its message mentions quota, in
\* whatever letter case, and Unexpected otherwise.
C13_QuotaMention ==
  \A i \in RemoteCalls :
    ~trace[i].ok =>
      LET e == appended[AppendsUpTo(i + 1)].error IN
      (e.status = -1 /\ e.code \notin {"ENOTFOUND", "ECONNREFUSED", "ETIMEDOUT"}) =>
        e.type = IF ContainsAnyCase(trace[i].result, <<"q", "u", "o", "t", "a">>) THEN "Quota"
                 ELSE "Unexpected"

\* the generation call failed, or TEST_SIMULATE_ERROR put an error in its
\* place
GenerationFailed ==
  /\ Exited
  /\ \/ MadeFailing("generateContent")
     \/ SimulatedFor(env) # {} /\ MadeOk("readFile")

\* C14: when the generation call fails, whatever the category of the error,
\* the run hands to the log one ERROR record with operation "content
\* generation", an error with type, message, code and status, the revision
\* id of the run (the one git printed, or "<new>") as commit and the token
\* count of the payload as usage.diffTokens; it exits with code 1 and hands
\* no PASS or FAIL record to the log.
C14_GenerationError ==
  GenerationFailed =>
    /\ exitCode = 1
    /\ verdict = NONE
    /\ banner = NONE
    /\ \A k \in 1..Len(appended) : appended[k].verdict \notin {"PASS", "FAIL"}
    /\ Cardinality({k \in 1..Len(appended) :
                      appended[k].operation = "content generation"}) = 1
    /\ trace[Len(trace)].op = "appendFile"
    /\ LastAppended.verdict = "ERROR"
    /\ LastAppended.operation = "content generation"
    /\ LastAppended.error.type \in
         {"Authentication", "Rate Limit", "Server", "API (404)", "Network",
          "Timeout", "Quota", "Unexpected"}
    /\ LastAppended.error.message # <<>>
    /\ LastAppended.reason =
         Reason("Gemini API Error", LastAppended.error.type, LastAppended.error.message)
    /\ LastAppended.commit = commit
    /\ (MadeFailing(HEAD_COMMAND) <=> commit = <<"<", "n", "e", "w", ">">>)
    /\ (MadeOk(HEAD_COMMAND) <=> commit = <<"a", "1", "b", "2", "c", "3">>)
    /\ LastAppended.usage.present
    /\ LastAppended.usage.diffTokens = diffInfo.tokenCount
    /\ LastAppended.usage.truncated = diffInfo.truncated

\* the generation call failed with a server error for a truncated payload of
\* a new repository
C14_Witness ==
  /\ GenerationFailed
  /\ MadeFailing("generateContent")
  /\ LastAppended.error.type = "Server"
  /\ LastAppended.commit = <<"<", "n", "e", "w", ">">>
  /\ diffInfo.truncated
  /\ diffInfo.tokenCount # diffInfo.originalTokenCount
  /\ LastAppended.usage.diffTokens = diffInfo.tokenCount

\* TEST_SIMULATE_ERROR puts an error in the place of every count call
SimulatedCountFailure == EnvIs(env, "TEST_SIMULATE_ERROR", <<"t", "o", "k", "e", "n", "-", "c", "o", "u", "n", "t", "i", "n", "g">>)

\* the first and the second count call of the run
FirstCountCall == CHOOSE i \in CallsOf("countTokens") : \A j \in CallsOf("countTokens") : i <= j

SecondCountCall == CHOOSE i \in CallsOf("countTokens") : \A j \in CallsOf("countTokens") : i >= j

\* the count of the staged diff failed
FirstCountFailed ==
  /\ tokenCount # -1
  /\ \/ SimulatedCountFailure
     \/ Made("countTokens") /\ ~trace[FirstCountCall].ok

\* the count of the truncated diff failed
SecondCountFailed ==
  /\ diffInfo.truncated
  /\ \/ SimulatedCountFailure
     \/ Cardinality(CallsOf("countTokens")) = 2 /\ ~trace[SecondCountCall].ok

\* n is the least integer not below len / 3.5
CeilOfFallback(n, len) == 35 * n >= 10 * len /\ 35 * (n - 1) < 10 * len

\* C15: a failing count call does not end the run: handleGeminiApiError
\* hands an ERROR record with operation "token counting" to the log without
\* exiting, the count is ceil(length / 3.5) of the text counted, the run goes
\* on to the revision lookup, and when the later stages succeed it ends
\* with the verdict PASS or FAIL.
C15_CountFailureRecovers ==
  /\ (FirstCountFailed => CeilOfFallback(tokenCount, length(rawDiff)))
  /\ (SecondCountFailed => CeilOfFallback(diffInfo.tokenCount, length(truncatedDiff)))
  /\ Cardinality(CountFailureRecords) =
       (IF FirstCountFailed THEN 1 ELSE 0) + (IF SecondCountFailed THEN 1 ELSE 0)
  /\ \A k \in CountFailureRecords :
       /\ appended[k].verdict = "ERROR"
       /\ appended[k].error.type \in {"Rate Limit", "Network", "Server"}
  /\ (FirstCountFailed \/ SecondCountFailed) =>
       /\ pc \in {"countTruncatedTokens", "revParseHead", "readRules", "generateContent",
                  "logVerdict", "announce", "exited"}
       /\ (Exited => Made(HEAD_COMMAND))
       /\ (Exited /\ MadeOk("generateContent") =>
             /\ verdict \in {"PASS", "FAIL"}
             /\ LastAppended.verdict = verdict
             /\ exitCode = IF verdict = "PASS" THEN 0 ELSE 1)

\* both count calls failed and the run ended with the verdict PASS
C15_Witness ==
  /\ Exited
  /\ Cardinality(CallsOf("countTokens")) = 2
  /\ FirstCountFailed
  /\ SecondCountFailed
  /\ verdict = "PASS"
  /\ exitCode = 0

\* the run has a verdict
HasVerdict == verdict # NONE

\* C16 as stated: a run that reaches a PASS or FAIL verdict hands exactly
\* one record to the log during the whole run, and the verdict of that
\* record is the verdict of the run.
C16_Original ==
  HasVerdict =>
    /\ Len(appended) = 1
    /\ appended[1].verdict = verdict

\* C16 as amended: a run that reaches a PASS or FAIL verdict hands exactly
\* one PASS or FAIL record to the log; it is the last record of the run and
\* its verdict is the verdict of the run; every other record of the run is
\* the ERROR record of a failed token count (operation "token counting"),
\* one for each failed count, at most two.
C16_OneVerdictRecord ==
  HasVerdict =>
    /\ pc \in {"announce", "exited"}
    /\ verdict \in {"PASS", "FAIL"}
    /\ Cardinality({k \in 1..Len(appended) : appended[k].verdict \in {"PASS", "FAIL"}}) = 1
    /\ LastAppended.verdict = verdict
    /\ \A k \in 1..(Len(appended) - 1) :
         /\ appended[k].verdict = "ERROR"
         /\ appended[k].operation = "token counting"
    /\ Len(appended) - 1 =
         (IF FirstCountFailed THEN 1 ELSE 0) + (IF SecondCountFailed THEN 1 ELSE 0)

\* a run with two failed counts ended with the verdict FAIL and three records
C16_Witness ==
  /\ Exited
  /\ verdict = "FAIL"
  /\ Len(appended) = 3
  /\ LastAppended.verdict = "FAIL"

\* the record handed to fs.appendFile by the call i of the trace
RecordOf(i) == appended[AppendsUpTo(i)]

\* the record of a handler that exits: every ERROR record but the one of a
\* failed token count
FatalRecord(r) == r.verdict = "ERROR" /\ r.operation # "token counting"

\* C17: at every stage that hands a record to the log, what the run does
\* next depends on the record alone and not on whether the write succeeded:
\* after the record of a fatal error the run exits with code 1, after the
\* record of a failed token count it goes on, after the record of a verdict
\* it prints the banner and exits with the code of that verdict.  So the
\* verdict and the exit code of a run with failing writes are those of the
\* same run with successful writes.
C17_LogFailureHarmless ==
  /\ exitCode = (IF ~Exited THEN -1 ELSE IF verdict = "PASS" THEN 0 ELSE 1)
  /\ (HasVerdict => verdict = interpret(env, ServiceText)[1])
  /\ \A i \in CallsOf("appendFile") :
       /\ (FatalRecord(RecordOf(i)) =>
             /\ i = Len(trace)
             /\ Exited
             /\ exitCode = 1
             /\ verdict = NONE)
       /\ (RecordOf(i).operation = "token counting" =>
             /\ pc # "countTokens"
             /\ (Exited => Len(trace) > i))
       /\ (RecordOf(i).verdict \in {"PASS", "FAIL"} =>
             /\ verdict = RecordOf(i).verdict
             /\ pc \in {"announce", "exited"}
             /\ (Exited =>
                   /\ Len(trace) = i + 1
                   /\ trace[i + 1].op = "banner"
                   /\ exitCode = IF RecordOf(i).verdict = "PASS" THEN 0 ELSE 1))

\* every write of the run failed, one of them the write of the PASS record,
\* and the run ended with code 0
C17_Witness ==
  /\ Exited
  /\ exitCode = 0
  /\ verdict = "PASS"
  /\ Len(appended) = 2
  /\ \A i \in CallsOf("appendFile") : ~trace[i].ok
  /\ log = PriorLog

\* C18: on the verdict path the PASS or FAIL record is handed to the log
\* before the banner is printed and before the process exits.
C18_LogThenAnnounce ==
  /\ \A i \in CallsOf("banner") :
       /\ i > 1
       /\ trace[i - 1].op = "appendFile"
       /\ RecordOf(i - 1).verdict \in {"PASS", "FAIL"}
       /\ RecordOf(i - 1).verdict = verdict
  /\ (banner # NONE => Made("banner"))
  /\ (pc = "announce" =>
        /\ trace[Len(trace)].op = "appendFile"
        /\ LastAppended.verdict = verdict
        /\ banner = NONE
        /\ exitCode = -1)
  /\ (Exited /\ MadeOk("generateContent") =>
        /\ trace[Len(trace)].op = "banner"
        /\ LastAppended.verdict = verdict)

\* the banner of a FAIL verdict was printed after a write of its record that
\* failed
C18_Witness ==
  /\ Exited
  /\ banner = "Bouncer blocked this commit"
  /\ Len(trace) > 1
  /\ trace[Len(trace)].op = "banner"
  /\ trace[Len(trace) - 1].op = "appendFile"
  /\ ~trace[Len(trace) - 1].ok
  /\ LastAppended.verdict = "FAIL"

\* C19: a run that ends with exit code 1 without a FAIL verdict has handed
\* an ERROR record to the log before it ended; no error ends the run outside
\* a handler.
C19_ErrorsRecorded ==
  (Exited /\ exitCode = 1 /\ verdict # "FAIL") =>
    /\ appended # <<>>
    /\ LastAppended.verdict = "ERROR"
    /\ trace[Len(trace)].op = "appendFile"

\* the call of the trace that handed the k-th record to fs.appendFile
AppendCall(k) == CHOOSE i \in CallsOf("appendFile") : AppendsUpTo(i) = k

\* the records of the run whose write succeeded, in the order of the writes
Written ==
  LET F[k \in 0..Len(appended)] ==
        IF k = 0 THEN <<>>
        ELSE IF trace[AppendCall(k)].ok THEN Append(F[k - 1], appended[k])
        ELSE F[k - 1]
  IN F[Len(appended)]

\* C20: the log is only appended to: at every point of the run it is the
\* log as it was before the run followed by the records the run has
\* written, in the order they were written.
C20_AppendOnly ==
  /\ Len(appended) = Cardinality(CallsOf("appendFile"))
  /\ log = PriorLog \o Written

\* the run wrote the record of a failed token count and the record of its
\* verdict after the record an earlier run had left
C20_Witness ==
  /\ Exited
  /\ HasVerdict
  /\ Len(appended) = 3
  /\ Len(log) = 3
  /\ log[1] = PriorLog[1]
  /\ log[2] = appended[1] \/ log[2] = appended[2]
  /\ log[3] = appended[3]

\* the last write of the run to the log succeeded
LastWriteOk == trace[AppendCall(Len(appended))].ok

\* C21 as stated: after a run has ended, the last line of the log is the
\* record of the outcome of that run, and its verdict is PASS exactly when
\* the exit code is 0.
C21_Original ==
  Exited =>
    /\ appended # <<>>
    /\ log[Len(log)] = LastAppended
    /\ (log[Len(log)].verdict = "PASS" <=> exitCode = 0)

\* C21 as amended: after a run has ended, the last record it handed to the
\* log is the record of its outcome (the verdict, or the fatal error), and
\* the verdict of that record is PASS exactly when the exit code is 0; the
\* record is the last line of the log when its write succeeded, and when
\* its write failed, or the run handed no record to the log (it then ended
\* with code 1), the last line of the log is an older one.
C21_LastLine ==
  Exited =>
    /\ (appended # <<>> =>
          /\ (HasVerdict => LastAppended.verdict = verdict)
          /\ (~HasVerdict => FatalRecord(LastAppended))
          /\ (LastAppended.verdict = "PASS" <=> exitCode = 0)
          /\ (LastWriteOk => log[Len(log)] = LastAppended)
          /\ (~LastWriteOk =>
                /\ Len(log) < Len(PriorLog) + Len(appended)
                /\ log[Len(log)] # LastAppended))
    /\ (appended = <<>> =>
          /\ exitCode = 1
          /\ log = PriorLog)

\* a run ended with code 0 and its PASS record is the last line of the log,
\* after the record of a failed token count
C21_Witness ==
  /\ Exited
  /\ exitCode = 0
  /\ Len(appended) = 2
  /\ LastWriteOk
  /\ log[Len(log)] = LastAppended
  /\ log[Len(log)].verdict = "PASS"

\* C22: the remote calls of a run are made one after another, in the order
\* count of the diff, count of the truncated diff (only when the first
\* count is above the limit), generation; there are at most three, at most
\* one of them the generation call, and a call that failed is not made
\* again.
C22_RemoteCallOrder ==
  /\ Cardinality(CallsOf("countTokens")) <= 2
  /\ Cardinality(CallsOf("generateContent")) <= 1
  /\ Cardinality(RemoteCalls) <= 3
  /\ \A i \in CallsOf("countTokens"), j \in CallsOf("generateContent") : i < j
  /\ \A j \in CallsOf("generateContent") : j = Len(trace) \/ j = Len(trace) - 1 \/ j = Len(trace) - 2
  /\ \A j \in CallsOf("generateContent") :
       ~trace[j].ok => j = Len(trace) - 1 /\ Exited
  /\ (Cardinality(CallsOf("countTokens")) = 2 =>
        /\ tokenCount > 800000
        /\ truncatedDiff # rawDiff
        /\ length(truncatedDiff) < length(rawDiff)
        /\ pc # "countTruncatedTokens")
  /\ \A i \in CallsOf("countTokens") :
       /\ ~trace[i].ok =>
            /\ trace[i + 1].op = "appendFile"
            /\ RecordOf(i + 1).operation = "token counting"
       /\ (i = FirstCountCall /\ ~trace[i].ok /\ tokenCount <= 800000) =>
            Cardinality(CallsOf("countTokens")) = 1
  /\ (Made("generateContent") => tokenCount # -1 /\ diffInfo # NoDiffInfo)

\* a run made three remote calls: the second count call failed and the
\* generation call returned
C22_Witness ==
  /\ Exited
  /\ Cardinality(RemoteCalls) = 3
  /\ ~trace[SecondCountCall].ok
  /\ MadeOk("generateContent")

\* the verdict the response of the generation call gives under the switches
\* of the environment
VerdictOfResponse == interpret(env, ServiceText)[1]

\* the run-length encoded text t is a prefix of u
IsPrefix(t, u) ==
  /\ Len(t) <= Len(u)
  /\ \A i \in 1..Len(t) :
       /\ t[i].c = u[i].c
       /\ IF i < Len(t) THEN t[i].n = u[i].n ELSE t[i].n <= u[i].n

\* C23: the records and the exit code of a run are functions of what the
\* run is given: the verdict of its record is the one the response text and
\* the switches of the environment give, usage.diffTokens is the count the
\* count calls returned for the payload (the estimate from the length of
\* the text when a count call failed), the payload is the diff or the
\* prefix the first count gives, and the exit code is 0 exactly for the
\* verdict PASS.  Two runs given the same things therefore write records
\* with the same verdict and usage.diffTokens and end with the same code.
C23_Deterministic ==
  /\ (tokenCount # -1 =>
        IF FirstCountFailed THEN CeilOfFallback(tokenCount, length(rawDiff))
        ELSE tokenCount = trace[FirstCountCall].n)
  /\ (diffInfo # NoDiffInfo =>
        /\ diffInfo.truncated = (tokenCount > 800000)
        /\ (~diffInfo.truncated =>
              /\ diffInfo.tokenCount = tokenCount
              /\ diffInfo.diff.body = rawDiff)
        /\ (diffInfo.truncated =>
              /\ diffInfo.diff.body = truncatedDiff
              /\ IsPrefix(diffInfo.diff.body, rawDiff)
              /\ IF SecondCountFailed
                   THEN CeilOfFallback(diffInfo.tokenCount, length(diffInfo.diff.body))
                   ELSE diffInfo.tokenCount = trace[SecondCountCall].n))
  /\ (pc = "countTruncatedTokens" =>
        length(truncatedDiff) = safeCharLimit(length(rawDiff), tokenCount))
  /\ \A k \in 1..Len(appended) :
       /\ (ClosingRecord(appended[k]) =>
             appended[k].usage.diffTokens = diffInfo.tokenCount)
       /\ (appended[k].verdict \in {"PASS", "FAIL"} =>
             appended[k].verdict = VerdictOfResponse)
  /\ (HasVerdict => verdict = VerdictOfResponse)
  /\ (Exited =>
        exitCode = IF MadeOk("generateContent") /\ VerdictOfResponse = "PASS" THEN 0 ELSE 1)

\* a run whose two count calls returned 800001 and 950000 ended with a FAIL
\* record whose usage.diffTokens is 950000
C23_Witness ==
  /\ Exited
  /\ Cardinality(CallsOf("countTokens")) = 2
  /\ trace[FirstCountCall].n = 800001
  /\ trace[SecondCountCall].n = BigCount
  /\ LastAppended.verdict = "FAIL"
  /\ LastAppended.usage.diffTokens = BigCount
  /\ exitCode = 1

\* the run is past the resolution of its configuration
ConfigResolved == pc # "parseArguments" /\ (Exited => trace # <<>>)

\* the text is an absolute path
IsAbsolute(p) == p # <<>> /\ p[1] = "/"

\* C24: the resolution of the configuration never fails: whatever the
\* argument vector, bare flags and unrecognized switches included, the run
\* goes on with three absolute paths, and a bare flag is recorded as true.
C24_ConfigurationTotal ==
  pc # "parseArguments" =>
    /\ ConfigResolved
    /\ IsAbsolute(rulesFilePath)
    /\ IsAbsolute(envFilePath)
    /\ IsAbsolute(logFilePath)
    /\ \A i \in 1..Len(argv) :
         (/\ startsWith(argv[i], <<"-", "-">>)
          /\ ~includes(argv[i], <<"=">>)
          /\ (i = Len(argv) \/ startsWith(argv[i + 1], <<"-", "-">>)))
         => cliArgs[slice(argv[i], 2)] = FlagValue

\* the resolved path of a path switch, and its default
PathOf(key) ==
  IF key = RULES_FILE THEN rulesFilePath
  ELSE IF key = ENV_FILE THEN envFilePath
  ELSE logFilePath

DefaultOf(key) ==
  IF key = RULES_FILE THEN <<".", "/", "r", "u", "l", "e", "s", ".", "m", "d">>
  ELSE IF key = ENV_FILE THEN <<".", "/", ".", "e", "n", "v">>
  ELSE <<".", "/", ".", "b", "o", "u", "n", "c", "e", "r", ".", "l", "o", "g", ".", "j", "s", "o", "n", "l">>

\* C25: for each path switch and every value, the switch given as
\* "--key value" and given as "--key=value" resolve to the same path.
C25_BothFormsAgree ==
  ConfigResolved =>
    \A k \in PathKeys, v \in PathValues :
      /\ (argv = << Dashed(k), v >> =>
            PathOf(k) = ResolvedPath(parseArguments(<< Dashed(k) \o <<"=">> \o v >>),
                                     k, DefaultOf(k)))
      /\ (argv = << Dashed(k) \o <<"=">> \o v >> =>
            PathOf(k) = ResolvedPath(parseArguments(<< Dashed(k), v >>),
                                     k, DefaultOf(k)))

\* the values the argument vector supplies for a path switch, in either form
Supplied(key) ==
  { argv[i + 1] : i \in { j \in 1..(Len(argv) - 1) :
                           argv[j] = Dashed(key) /\ ~startsWith(argv[j + 1], <<"-", "-">>) } }
    \cup { slice(argv[i], Len(Dashed(key)) + 1) :
             i \in { j \in 1..Len(argv) : startsWith(argv[j], Dashed(key) \o <<"=">>) } }

\* the switch is not in the argument vector
Absent(key) ==
  \A i \in 1..Len(argv) :
    argv[i] # Dashed(key) /\ ~startsWith(argv[i], Dashed(key) \o <<"=">>)

\* the value resolved against the working directory
AgainstCwd(p) ==
  IF p = <<>> THEN Cwd
  ELSE IF p[1] = "/" THEN p
  ELSE IF Len(p) >= 2 /\ SubSeq(p, 1, 2) = <<".", "/">> THEN Cwd \o <<"/">> \o SubSeq(p, 3, Len(p))
  ELSE Cwd \o <<"/">> \o p

\* C26: the resolved path of a path switch that is absent is its default
\* (./rules.md, ./.env, ./.bouncer.log.jsonl) resolved against the working
\* directory, and the resolved path of a switch that is present is the value
\* supplied, resolved against the working directory, whatever the other
\* switches are.
C26_ResolvedPaths ==
  ConfigResolved =>
    \A k \in PathKeys :
      /\ (Absent(k) => PathOf(k) = AgainstCwd(DefaultOf(k)))
      /\ \A v \in Supplied(k) : PathOf(k) = AgainstCwd(v)

\* the variables of the file f put under those of the environment e
FileUnder(e, f) ==
  [k \in (DOMAIN e) \cup (DOMAIN f) |-> IF k \in DOMAIN e THEN e[k] ELSE f[k]]

\* C27: loading the env file never changes a variable the process
\* environment already has: every step of the run keeps the variables of
\* the environment as they are, only the load of the env file adds
\* variables, and after a successful load every variable has its ambient
\* value when it had one and the value of the file otherwise.
C27_AmbientWins ==
  [][ /\ \A k \in DOMAIN env : k \in DOMAIN env' /\ env'[k] = env[k]
      /\ (env' # env => pc = "loadEnv")
      /\ (pc = "loadEnv" =>
            \/ ~trace'[Len(trace')].ok /\ env' = env
            \/ /\ trace'[Len(trace')].ok
               /\ \E f \in { <<>>,
                             [n \in {"GEMINI_API_KEY"} |-> <<>>],
                             [n \in {"GEMINI_API_KEY"} |-> Repeat("f", 19)],
                             [n \in {"GEMINI_API_KEY"} |-> Repeat("k", LongKeyLen)] } :
                    env' = FileUnder(env, f))
    ]_vars

\* the env file gave the credential, 19 times "f", that the ambient
\* environment did not have
C27_Witness ==
  /\ MadeOk("dotenv.config")
  /\ KeyIsSet
  /\ env["GEMINI_API_KEY"] = Repeat("f", 19)
  /\ Exited

\* the texts of a record
TextsOf(r) == {r.commit, r.reason.message, r.source, r.error.message}

\* the credential is set and is not blank
KeyIsVisible ==
  /\ KeyIsSet
  /\ \E i \in 1..Len(env["GEMINI_API_KEY"]) : env["GEMINI_API_KEY"][i] \notin WhiteSpace

\* C28: no record a run hands to the log contains the value of the
\* credential, whether the credential is accepted or refused, so the
\* records of two runs that differ only in the value of the credential do
\* not differ.
C28_NoCredentialInRecords ==
  KeyIsVisible =>
    \A k \in 1..Len(appended) :
      \A t \in TextsOf(appended[k]) :
        ~includes(t, env["GEMINI_API_KEY"])

\* a run with an accepted credential ended with a verdict after the record
\* of a failed token count
C28_Witness ==
  /\ Exited
  /\ CredentialPasses
  /\ HasVerdict
  /\ Len(appended) = 2
  /\ LastWriteOk

\* C29: when the first count is above 800000 the payload has truncated true
\* and originalTokenCount equal to that count, and the record of the verdict
\* or of the failed generation call has usage.truncated true and
\* usage.originalDiffTokens equal to it; otherwise the payload is not
\* truncated and the record has usage.truncated false and no
\* originalDiffTokens.
C29_TruncationRecorded ==
  /\ (diffInfo # NoDiffInfo =>
        IF tokenCount > 800000
          THEN diffInfo.truncated /\ diffInfo.originalTokenCount = tokenCount
          ELSE ~diffInfo.truncated /\ diffInfo.originalTokenCount = -1)
  /\ \A k \in 1..Len(appended) :
       ClosingRecord(appended[k]) =>
         /\ appended[k].usage.present
         /\ IF tokenCount > 800000
              THEN /\ appended[k].usage.truncated
                   /\ appended[k].usage.originalDiffTokens = tokenCount
              ELSE /\ ~appended[k].usage.truncated
                   /\ appended[k].usage.originalDiffTokens = -1

\* a diff first counted at 950000 tokens got a PASS record that says so
C29_Witness ==
  /\ Exited
  /\ tokenCount = BigCount
  /\ diffInfo.truncated
  /\ LastAppended.verdict = "PASS"
  /\ LastAppended.usage.truncated
  /\ LastAppended.usage.originalDiffTokens = BigCount

\* the messages of the credential check
KeyMessages ==
  { <<"M", "i", "s", "s", "i", "n", "g", " ", "G", "e", "m", "i", "n", "i", " ", "A", "P", "I", " ", "k", "e", "y">>, <<"E", "m", "p", "t", "y", " ", "G", "e", "m", "i", "n", "i", " ", "A", "P", "I", " ", "k", "e", "y">>,
    <<"G", "e", "m", "i", "n", "i", " ", "A", "P", "I", " ", "k", "e", "y", " ", "a", "p", "p", "e", "a", "r", "s", " ", "t", "o", " ", "b", "e", " ", "i", "n", "v", "a", "l", "i", "d", " ", "(", "t", "o", "o", " ", "s", "h", "o", "r", "t", ")">> }

\* C30: a failing load of the env file neither ends the run nor hands a
\* record to the log: the run goes on to the credential check, and it ends
\* there only when the credential is refused, with the record of the
\* credential check.
C30_EnvLoadNonFatal ==
  \A i \in CallsOf("dotenv.config") :
    /\ i = 1
    /\ AppendsUpTo(i) = 0
    /\ (Len(trace) = 1 =>
          /\ pc \in {"checkApiKey", "workTree"}
          /\ exitCode = -1
          /\ appended = <<>>)
    /\ (pc = "workTree" => CredentialPasses)
    /\ (~trace[i].ok =>
          /\ (CredentialPasses /\ Exited => Len(trace) > 2 /\ Made(WORK_TREE_COMMAND))
          /\ (Len(trace) > 1 /\ trace[2].op = "appendFile" =>
                /\ ~CredentialPasses
                /\ appended[1].commit = <<"<", "a", "p", "i", "-", "k", "e", "y", "-", "e", "r", "r", "o", "r", ">">>
                /\ appended[1].reason.message \in KeyMessages))

\* the env file could not be loaded, the ambient credential was accepted and
\* the run ended with a verdict
C30_Witness ==
  /\ MadeFailing("dotenv.config")
  /\ CredentialPasses
  /\ Exited
  /\ HasVerdict

\* the records of the git handler whose error was classified "No Commits"
NoCommitsRecords ==
  {i \in 1..Len(appended) :
     appended[i].commit = GIT_COMMAND_ERROR /\ appended[i].error.type = "No Commits"}

\* C31: a git failure that the classifier of the git handler calls
\* "No Commits" never ends the run: the run goes on to the revision lookup
\* with the revision id "<new>" instead of exiting on that failure.
C31_NoCommitsContinues ==
  (NoCommitsRecords # {} /\ Exited) => (Made(HEAD_COMMAND) /\ commit = NEW_COMMIT)

\* the lines of the log file the second invocation wrote
PeerLines == {peer.at[k] : k \in 1..Len(peer.at)} \ {0}

\* the log file without the lines the second invocation wrote
LogWithoutPeer ==
  LET F[i \in 0..Len(log)] ==
        IF i = 0 THEN <<>>
        ELSE IF i \in PeerLines THEN F[i - 1]
        ELSE Append(F[i - 1], log[i])
  IN F[Len(log)]

\* C32: when two invocations run at once against one log file, each append
\* being atomic, every record either of them wrote is in the file as it was
\* handed over, the records of each invocation are in the file in the order
\* that invocation wrote them, nothing else is in the file but what it held
\* before, and each invocation exits with the code it exits with alone.
C32_ConcurrentAppends ==
  /\ LogWithoutPeer = PriorLog \o Written
  /\ \A k \in 1..Len(peer.at) :
       peer.at[k] # 0 =>
         /\ peer.at[k] \in (Len(PriorLog) + 1)..Len(log)
         /\ log[peer.at[k]] = peer.records[k]
  /\ \A j, k \in 1..Len(peer.at) :
       (j < k /\ peer.at[j] # 0 /\ peer.at[k] # 0) => peer.at[j] < peer.at[k]
  /\ (Exited =>
        exitCode = IF MadeOk("generateContent") /\ VerdictOfResponse = "PASS" THEN 0 ELSE 1)
  /\ (peer.exitCode # -1 => peer.exitCode = peer.code)

\* both invocations have exited, each wrote two records, and the records of
\* the two are interleaved in the file
C32_Witness ==
  /\ Exited
  /\ exitCode = 1
  /\ peer.exitCode = 0
  /\ Len(Written) = 2
  /\ Len(log) = Len(PriorLog) + 4
  /\ peer.at = <<Len(PriorLog) + 1, Len(PriorLog) + 3>>

\* the prompt has been built: the run has reached the generation call
PromptBuilt == prompt # NoPrompt

\* the diff text of the prompt is the text d, or a prefix of d followed by
\* the truncation marker
PromptDiffFrom(d) ==
  \/ prompt.diff = [body |-> d, marker |-> NoMarker]
  \/ /\ prompt.diff.marker.present
     /\ IsPrefix(prompt.diff.body, d)

\* C33 as stated: in every run that reaches the generation call the diff
\* text of the prompt is the staged diff "git diff --cached" returned, or a
\* prefix of it followed by the truncation marker.
C33_Original ==
  PromptBuilt => (MadeOk(DIFF_COMMAND) /\ PromptDiffFrom(rawDiff))

\* C33: in every run that reaches the generation call, the diff text of the
\* prompt is: when TEST_EMPTY_DIFF is not 'true', the staged diff
\* "git diff --cached" returned or a prefix of it followed by the truncation
\* marker; when TEST_EMPTY_DIFF is 'true', the fixed test diff of the script
\* or a prefix of it followed by the truncation marker, git diff not being
\* called.
C33_PromptDiff ==
  PromptBuilt =>
    IF TestDiff
      THEN ~Made(DIFF_COMMAND) /\ PromptDiffFrom(TEST_DIFF)
      ELSE MadeOk(DIFF_COMMAND) /\ PromptDiffFrom(rawDiff)

\* a run without the test switch is at the generation call with a prompt
\* that holds a shorter prefix of the staged diff and the marker
C33_Witness ==
  /\ pc = "generateContent"
  /\ ~TestDiff
  /\ MadeOk(DIFF_COMMAND)
  /\ prompt.diff.marker.present
  /\ length(prompt.diff.body) < length(rawDiff)

\* handlePotentiallyLargeDiff has just cut the diff
JustTruncated == pc = "countTruncatedTokens"

\* the quotient and the remainder of 800000 * 95 * length / (100 * count):
\* 800000 * (length / count) * 0.95 in exact arithmetic
ExactLimit == MulDivMod(760000, length(rawDiff), tokenCount)

\* what follows the cut: the payload is the kept text followed by the
\* marker, shorter than the diff and a prefix of it, and the first count is
\* above 800000; and no text is cut while the first count is within it
TruncatedPayload ==
  /\ (diffInfo.truncated =>
        /\ diffInfo.diff.body = truncatedDiff
        /\ diffInfo.diff.marker.present
        /\ IsPrefix(diffInfo.diff.body, rawDiff)
        /\ length(diffInfo.diff.body) < length(rawDiff)
        /\ diffInfo.originalTokenCount = tokenCount
        /\ tokenCount > 800000)
  /\ ((JustTruncated \/ truncatedDiff # <<>>) => tokenCount > 800000)
  /\ ((diffInfo # NoDiffInfo /\ tokenCount > 800000) => diffInfo.truncated)

\* C34 as stated: whenever handlePotentiallyLargeDiff truncates, the text
\* kept is a strict prefix of the diff of length
\* floor(800000 * (length / first count) * 0.95), less than the length of
\* the diff, followed by the marker, and it truncates only when the first
\* count is above 800000.
C34_Original ==
  /\ (JustTruncated =>
        /\ length(truncatedDiff) = ExactLimit[1]
        /\ length(truncatedDiff) < length(rawDiff)
        /\ IsPrefix(truncatedDiff, rawDiff))
  /\ TruncatedPayload

\* C34: whenever handlePotentiallyLargeDiff truncates, the text kept is a
\* strict prefix of the diff whose length is
\* Math.floor(800000 * (length / first count) * 0.95) as the doubles of the
\* script give it, each operation rounded: that is
\* floor(800000 * (length / first count) * 0.95) of exact arithmetic, or one
\* less than it, and one less only when the exact product is a whole number;
\* it is less than the length of the diff and followed by the marker, and
\* it truncates only when the first count is above 800000.
C34_Truncation ==
  /\ (JustTruncated =>
        /\ length(truncatedDiff) =
             ffloor(fmul(fmul(FromInt(800000), fdiv(length(rawDiff), tokenCount)),
                         SAFETY_FACTOR))
        /\ length(truncatedDiff) \in {ExactLimit[1], ExactLimit[1] - 1}
        /\ (length(truncatedDiff) # ExactLimit[1] => ExactLimit[2] = 0)
        /\ length(truncatedDiff) < length(rawDiff)
        /\ IsPrefix(truncatedDiff, rawDiff))
  /\ TruncatedPayload

\* a diff was cut one character short of the exact product, a whole number
C34_Witness ==
  /\ JustTruncated
  /\ ExactLimit[2] = 0
  /\ length(truncatedDiff) = ExactLimit[1] - 1

\* the commit texts the error handlers write in place of a revision id
Sentinels == {API_KEY_ERROR, GIT_COMMAND_ERROR, RULES_FILE_ERROR, GEMINI_API_ERROR}

\* C35: every record handed to the log has the verdict PASS, FAIL or ERROR;
\* a record whose commit is "<api-key-error>", "<git-command-error>",
\* "<rules-file-error>" or "<gemini-api-error>" has the verdict ERROR; a
\* PASS or FAIL record carries the revision id of the run and a usage
\* object; and no ERROR record has error.type "Unknown".
C35_RecordShape ==
  \A i \in 1..Len(appended) :
    /\ appended[i].verdict \in {"PASS", "FAIL", "ERROR"}
    /\ (appended[i].commit \in Sentinels => appended[i].verdict = "ERROR")
    /\ (appended[i].verdict \in {"PASS", "FAIL"} =>
          /\ appended[i].commit = commit
          /\ appended[i].commit \notin Sentinels
          /\ appended[i].usage.present)
    /\ (appended[i].verdict = "ERROR" => appended[i].error.type # "Unknown")

\* a run handed over the record of a failed count, with the sentinel of the
\* Gemini handler, and then a FAIL record with its revision id
C35_Witness ==
  /\ Exited
  /\ Len(appended) = 2
  /\ appended[1].verdict = "ERROR"
  /\ appended[1].commit = GEMINI_API_ERROR
  /\ appended[1].error.type = "Rate Limit"
  /\ appended[2].verdict = "FAIL"
  /\ appended[2].commit = commit
  /\ appended[2].usage.present

\* the stages of the script, in the order of its text
Stages ==
  << "parseArguments", "loadEnv", "checkApiKey", "workTree", "stagedDiff", "countTokens",
     "countTruncatedTokens", "revParseHead", "readRules", "generateContent", "logVerdict",
     "announce", "exited" >>

StageRank(p) == CHOOSE i \in 1..Len(Stages) : Stages[i] = p

\* C36: when every call to a collaborator returns or throws, every run ends
\* with an exit code, and every step of a run goes on to a later stage of
\* the script: no stage is entered a second time and nothing follows the
\* exit.
C36_Terminates ==
  /\ <>(Exited /\ exitCode \in {0, 1})
  /\ [][StageRank(pc') > StageRank(pc)]_vars

\* a run went through every stage, both count calls included, and exited
\* with code 0
C36_Witness ==
  /\ Exited
  /\ exitCode = 0
  /\ Cardinality(CallsOf("countTokens")) = 2
  /\ MadeOk(HEAD_COMMAND)
  /\ MadeOk("readFile")
  /\ MadeOk("generateContent")
  /\ Made("banner")

=============================================================================
